---------------------------- MODULE Spec2Model ----------------------------
(*
  Track-layout detection and segment-metrics pipeline of the telemetry
  analyzer backend:

    backend/app/core/distance_normalizer.py   DistanceNormalizer
    backend/app/services/segment_cache.py     SegmentCache (Tier 1 / Tier 2)
    backend/app/core/segments.py              SegmentService (orchestrator)
    backend/app/core/reference_lap.py         ReferenceLapSelector
    backend/app/core/metrics.py               MetricsCalculator
    backend/app/core/track_layout.py          TrackLayoutService

  Specifications:
    SpecNorm          DistanceNormalizer.normalize, one loop iteration per step
    SpecLayoutCache   SegmentCache Tier 1: save_layout / get_layout / invalidate_layout
    SpecMetricsCache  SegmentCache Tier 2: save_lap_metrics / get_lap_metrics / invalidate
    Spec              SegmentService: get_or_create_layout / get_lap_metrics / compare_laps

  Conventions:
    - Python's Optional[T] is a sequence of length 0 (None) or 1 (<<v>>).
    - str values that take part in key construction are sequences of
      one-character strings, so that replace() and concatenation are computed.
    - Raw distances are whole metres.  Normalized distances are integers in
      units of 1/Scale metre, so that the * 0.5 of the interpolation is exact.
*)
EXTENDS Integers, Sequences, FiniteSets, TLC

VARIABLES
  norm,    \* the running DistanceNormalizer.normalize call
  tier1,   \* Tier-1 cache directory: track key -> layout file
  tier2,   \* Tier-2 cache directory: <<session_id, lap_number>> -> metrics file
  log      \* the calls made, with their arguments and outcomes (the cache
           \* specifications keep all of them, Spec keeps the latest)

vars == <<norm, tier1, tier2, log>>

None == <<>>
Some(v) == <<v>>
IsNone(o) == o = <<>>
Val(o) == o[1]

Last(s) == s[Len(s)]

----------------------------------------------------------------------------
(* Bounds of the model *)

\* longest lap_distances sequence given to normalize
MaxLen == 4

\* raw Lap Dist samples: a negative artifact, small decreases (5 -> 0),
\* artifact jumps (20 -> 5) and wrap-around drops (100 -> 20, 100 -> 0)
DistValues == {-1, 0, 5, 20, 100}

\* lap_start_offset values
Offsets == {0, 7}

RECURSIVE SeqsUpTo(_, _)
SeqsUpTo(S, n) ==
  IF n = 0 THEN {<<>>}
  ELSE LET shorter == SeqsUpTo(S, n - 1)
       IN shorter \cup {Append(s, x) : s \in {t \in shorter : Len(t) = n - 1}, x \in S}

----------------------------------------------------------------------------
(* DistanceNormalizer (distance_normalizer.py) *)

WRAP_THRESHOLD == 50
NEGATIVE_JUMP_THRESHOLD == 10

\* normalized values are kept in units of 1/Scale metre
Scale == 2 ^ MaxLen

\* a mutated _estimate_track_length: the first valid sample, no running maximum
EstimateScanFirst(valid, i, max_val) == valid[1]

\* _estimate_track_length: running maximum of the non-negative samples up to
\* the first drop larger than WRAP_THRESHOLD
RECURSIVE EstimateScan(_, _, _)
EstimateScan(valid, i, max_val) ==
  IF i > Len(valid) THEN max_val
  ELSE IF valid[i] < valid[i - 1] - WRAP_THRESHOLD THEN max_val
  ELSE EstimateScan(valid, i + 1, IF valid[i] > max_val THEN valid[i] ELSE max_val)

EstimateTrackLength(lap_distances) ==
  LET valid_distances == SelectSeq(lap_distances, LAMBDA d : d >= 0)
  IN IF valid_distances = <<>> THEN 0
     ELSE EstimateScan(valid_distances, 2, valid_distances[1])

\* _find_next_valid: the next non-negative raw sample after index i, or None
FindNextValid(lap_distances, i) ==
  LET later == {j \in (i + 1)..Len(lap_distances) : lap_distances[j] >= 0}
  IN IF later = {} THEN None
     ELSE Some(lap_distances[CHOOSE j \in later : \A k \in later : j <= k])

\* the branch an iteration of the loop takes for sample i (1-based)
IsNegative(d, i) == d[i] < 0
HasValidPrev(d, i) == i > 1 /\ d[i - 1] >= 0
IsWrap(d, i) ==
  ~IsNegative(d, i) /\ HasValidPrev(d, i) /\ d[i - 1] - d[i] > WRAP_THRESHOLD
IsArtifact(d, i) ==
  /\ ~IsNegative(d, i) /\ HasValidPrev(d, i) /\ ~IsWrap(d, i)
  /\ d[i] < d[i - 1] - NEGATIVE_JUMP_THRESHOLD

\* line 78-82: a negative sample after the first
Interpolate(normalized, next_valid) ==
  LET prev_valid == Last(normalized)
  IN IF ~IsNone(next_valid)
       THEN Append(normalized, prev_valid + ((Val(next_valid) * Scale - prev_valid) \div 2))
       ELSE Append(normalized, prev_valid)

\* a mutated artifact branch: the `continue` is missing, so the iteration
\* falls through to line 101 and appends a second value
ArtifactJumpNoContinue(normalized, dist, accumulated_offset) ==
  IF normalized # <<>>
    THEN Append(Append(normalized, Last(normalized)), dist * Scale + accumulated_offset)
    ELSE Append(normalized, dist * Scale + accumulated_offset)

\* line 95-101: a drop between NEGATIVE_JUMP_THRESHOLD and WRAP_THRESHOLD
ArtifactJump(normalized, dist, accumulated_offset) ==
  IF normalized # <<>>
    THEN Append(normalized, Last(normalized))
    ELSE Append(normalized, dist * Scale + accumulated_offset)

\* a mutated line 101: the accumulated offset is not added
PlainValueNoOffset(dist, accumulated_offset) == dist * Scale

\* line 101: normalized.append(dist + accumulated_offset)
PlainValue(dist, accumulated_offset) == dist * Scale + accumulated_offset

\* one iteration of the for loop of normalize (lines 66-101) on sample n.i
NormalizeIteration(n) ==
  LET d == n.lap_distances
      i == n.i
  IN IF IsNegative(d, i)
       THEN [n EXCEPT !.i = i + 1,
                      !.normalized =
                        IF i = 1 THEN Append(n.normalized, n.accumulated_offset)
                        ELSE Interpolate(n.normalized, FindNextValid(d, i))]
     ELSE IF IsWrap(d, i)
       THEN LET off == n.accumulated_offset + n.track_length * Scale
            IN [n EXCEPT !.i = i + 1,
                         !.wrap_points = Append(n.wrap_points, i - 1),
                         !.accumulated_offset = off,
                         !.normalized = Append(n.normalized, PlainValue(d[i], off))]
     ELSE IF IsArtifact(d, i)
       THEN [n EXCEPT !.i = i + 1,
                      !.normalized = ArtifactJump(n.normalized, d[i], n.accumulated_offset)]
     ELSE [n EXCEPT !.i = i + 1,
                    !.normalized = Append(n.normalized, PlainValue(d[i], n.accumulated_offset))]

\* the state of a normalize call before its first statement
NormCall(lap_distances, lap_start_offset) ==
  [pc |-> "start", lap_distances |-> lap_distances,
   lap_start_offset |-> lap_start_offset,
   i |-> 1, normalized |-> <<>>, wrap_points |-> <<>>,
   accumulated_offset |-> 0, track_length |-> 0, original_distances |-> <<>>]

NormIdle == NormCall(<<>>, 0)

\* lines 42-48
NormEmpty ==
  /\ norm.pc = "start" /\ Len(norm.lap_distances) = 0
  /\ norm' = [norm EXCEPT !.pc = "done"]
  /\ UNCHANGED <<tier1, tier2, log>>

\* lines 50-56: a single sample
NormSingle ==
  /\ norm.pc = "start" /\ Len(norm.lap_distances) = 1
  /\ norm' = [norm EXCEPT !.pc = "done",
                          !.original_distances = norm.lap_distances,
                          !.normalized = <<norm.lap_start_offset * Scale>>,
                          !.track_length = norm.lap_distances[1]]
  /\ UNCHANGED <<tier1, tier2, log>>

\* lines 58-64
NormBegin ==
  /\ norm.pc = "start" /\ Len(norm.lap_distances) >= 2
  /\ norm' = [norm EXCEPT !.pc = "loop",
                          !.track_length = EstimateTrackLength(norm.lap_distances),
                          !.accumulated_offset = norm.lap_start_offset * Scale]
  /\ UNCHANGED <<tier1, tier2, log>>

InLoop == norm.pc = "loop" /\ norm.i <= Len(norm.lap_distances)

NormStepNegative ==
  /\ InLoop /\ IsNegative(norm.lap_distances, norm.i)
  /\ norm' = NormalizeIteration(norm)
  /\ UNCHANGED <<tier1, tier2, log>>

NormStepWrap ==
  /\ InLoop /\ IsWrap(norm.lap_distances, norm.i)
  /\ norm' = NormalizeIteration(norm)
  /\ UNCHANGED <<tier1, tier2, log>>

NormStepArtifact ==
  /\ InLoop /\ IsArtifact(norm.lap_distances, norm.i)
  /\ norm' = NormalizeIteration(norm)
  /\ UNCHANGED <<tier1, tier2, log>>

NormStepPlain ==
  /\ InLoop
  /\ ~IsNegative(norm.lap_distances, norm.i)
  /\ ~IsWrap(norm.lap_distances, norm.i)
  /\ ~IsArtifact(norm.lap_distances, norm.i)
  /\ norm' = NormalizeIteration(norm)
  /\ UNCHANGED <<tier1, tier2, log>>

\* lines 103-108
NormReturn ==
  /\ norm.pc = "loop" /\ norm.i > Len(norm.lap_distances)
  /\ norm' = [norm EXCEPT !.pc = "done", !.original_distances = norm.lap_distances]
  /\ UNCHANGED <<tier1, tier2, log>>

InitNorm ==
  /\ \E d \in SeqsUpTo(DistValues, MaxLen), off \in Offsets : norm = NormCall(d, off)
  /\ tier1 = <<>> /\ tier2 = <<>> /\ log = <<>>

NextNorm ==
  \/ NormEmpty
  \/ NormSingle
  \/ NormBegin
  \/ NormStepNegative
  \/ NormStepWrap
  \/ NormStepArtifact
  \/ NormStepPlain
  \/ NormReturn

SpecNorm == InitNorm /\ [][NextNorm]_vars

\* the whole call as a function: the NormalizedDistance normalize returns
RECURSIVE NormalizeRun(_)
NormalizeRun(n) ==
  IF n.i > Len(n.lap_distances) THEN n ELSE NormalizeRun(NormalizeIteration(n))

\* lines 103-108: the NormalizedDistance of a finished loop
NormalizedOf(n) ==
  [original_distances |-> n.lap_distances, normalized_distances |-> n.normalized,
   track_length |-> n.track_length, wrap_points |-> n.wrap_points]

Normalize(lap_distances, lap_start_offset) ==
  IF Len(lap_distances) = 0
    THEN [original_distances |-> <<>>, normalized_distances |-> <<>>,
          track_length |-> 0, wrap_points |-> <<>>]
  ELSE IF Len(lap_distances) < 2
    THEN [original_distances |-> lap_distances,
          normalized_distances |-> <<lap_start_offset * Scale>>,
          track_length |-> lap_distances[1], wrap_points |-> <<>>]
  ELSE NormalizedOf(NormalizeRun([NormCall(lap_distances, lap_start_offset) EXCEPT
                                    !.track_length = EstimateTrackLength(lap_distances),
                                    !.accumulated_offset = lap_start_offset * Scale]))

----------------------------------------------------------------------------
(* Claims about DistanceNormalizer *)

NormDone == norm.pc = "done"

NonDecreasing(s) == \A k \in 1..(Len(s) - 1) : s[k] <= s[k + 1]

NoNegativeNoWrap(d) ==
  /\ \A k \in 1..Len(d) : d[k] >= 0
  /\ \A k \in 2..Len(d) : ~(d[k - 1] - d[k] > WRAP_THRESHOLD)

\* C8 (as claimed): for every lap_distances and lap_start_offset the returned
\* normalized_distances is non-decreasing.
C8_Monotonic == NormDone => NonDecreasing(norm.normalized)

\* C9: for every non-empty input the result has as many normalized values as
\* the input has samples, original_distances is the input, and every loop
\* iteration has appended exactly one value (i - 1 values after i - 1 iterations).
C9_LengthPreserved ==
  /\ norm.pc = "loop" => Len(norm.normalized) = norm.i - 1
  /\ (NormDone /\ norm.lap_distances # <<>>) =>
       /\ Len(norm.normalized) = Len(norm.lap_distances)
       /\ Len(norm.original_distances) = Len(norm.lap_distances)
       /\ norm.original_distances = norm.lap_distances

\* a finished call whose input had a negative sample, a wrap and an artifact jump
C9_Witness ==
  /\ NormDone
  /\ Len(norm.lap_distances) = MaxLen
  /\ Len(norm.wrap_points) >= 1
  /\ \E k \in 2..MaxLen : IsArtifact(norm.lap_distances, k)
  /\ \E k \in 2..MaxLen : IsNegative(norm.lap_distances, k)

ElementwiseOffset ==
  \A k \in 1..Len(norm.lap_distances) :
     norm.normalized[k] = (norm.lap_distances[k] + norm.lap_start_offset) * Scale

\* C10 (as claimed): every non-empty input of any length without negative
\* sample and without wrap gives a non-decreasing result equal to
\* lap_distances[i] + lap_start_offset at every index.
C10_AsClaimed ==
  (NormDone /\ norm.lap_distances # <<>> /\ NoNegativeNoWrap(norm.lap_distances)) =>
     /\ Len(norm.normalized) = Len(norm.lap_distances)
     /\ NonDecreasing(norm.normalized)
     /\ ElementwiseOffset

\* C10 (amended): every input of at least two samples that has no negative
\* sample and never decreases from one sample to the next gives a
\* non-decreasing result equal to lap_distances[i] + lap_start_offset at every index.
C10_NonDecreasingInput ==
  (/\ NormDone
   /\ Len(norm.lap_distances) >= 2
   /\ \A k \in 1..Len(norm.lap_distances) : norm.lap_distances[k] >= 0
   /\ NonDecreasing(norm.lap_distances)) =>
     /\ Len(norm.normalized) = Len(norm.lap_distances)
     /\ NonDecreasing(norm.normalized)
     /\ ElementwiseOffset

\* a finished call on a strictly increasing input with a non-zero offset
C10_Witness ==
  /\ NormDone
  /\ Len(norm.lap_distances) >= 3
  /\ norm.lap_start_offset # 0
  /\ \A k \in 1..Len(norm.lap_distances) : norm.lap_distances[k] >= 0
  /\ \A k \in 1..(Len(norm.lap_distances) - 1) :
        norm.lap_distances[k] < norm.lap_distances[k + 1]
  /\ ElementwiseOffset

\* the only drop larger than WRAP_THRESHOLD is from sample k - 1 to sample k
OnlyDropAt(d, k) ==
  /\ d[k - 1] - d[k] > WRAP_THRESHOLD
  /\ \A j \in 2..Len(d) : j # k => ~(d[j - 1] - d[j] > WRAP_THRESHOLD)

MaxBefore(d, k) == CHOOSE m \in {d[j] : j \in 1..(k - 1)} : \A j \in 1..(k - 1) : d[j] <= m

\* C11 (as claimed): when the only drop larger than WRAP_THRESHOLD is at
\* (0-based) index k, wrap_points = [k], track_length is the largest raw value
\* before k and normalized[i] = raw[i] + track_length from k on.
C11_AsClaimed ==
  NormDone =>
    \A k \in 2..Len(norm.lap_distances) :
       OnlyDropAt(norm.lap_distances, k) =>
          /\ norm.wrap_points = <<k - 1>>
          /\ norm.track_length = MaxBefore(norm.lap_distances, k)
          /\ \A i \in k..Len(norm.lap_distances) :
                norm.normalized[i] = (norm.lap_distances[i] + norm.track_length) * Scale

\* C11 (amended): when no sample is negative, the only drop larger than
\* WRAP_THRESHOLD is at (0-based) index k and no sample after k is more than
\* NEGATIVE_JUMP_THRESHOLD below its predecessor, wrap_points = [k],
\* track_length is the largest raw value before k and
\* normalized[i] = raw[i] + track_length + lap_start_offset from k on.
C11_SingleWrap ==
  NormDone =>
    \A k \in 2..Len(norm.lap_distances) :
       (/\ OnlyDropAt(norm.lap_distances, k)
        /\ \A j \in 1..Len(norm.lap_distances) : norm.lap_distances[j] >= 0
        /\ \A j \in (k + 1)..Len(norm.lap_distances) :
              ~(norm.lap_distances[j] < norm.lap_distances[j - 1] - NEGATIVE_JUMP_THRESHOLD)) =>
          /\ norm.wrap_points = <<k - 1>>
          /\ norm.track_length = MaxBefore(norm.lap_distances, k)
          /\ \A i \in k..Len(norm.lap_distances) :
                norm.normalized[i] =
                  (norm.lap_distances[i] + norm.track_length + norm.lap_start_offset) * Scale

\* a finished call with an offset whose input rises, wraps once and rises again
C11_Witness ==
  /\ NormDone
  /\ Len(norm.lap_distances) = MaxLen
  /\ norm.lap_start_offset # 0
  /\ \A j \in 1..MaxLen : norm.lap_distances[j] >= 0
  /\ OnlyDropAt(norm.lap_distances, MaxLen - 1)
  /\ norm.lap_distances[MaxLen] > norm.lap_distances[MaxLen - 1]
  /\ norm.wrap_points = <<MaxLen - 2>>
  /\ norm.track_length > norm.lap_distances[1]
  /\ norm.normalized[MaxLen] =
       (norm.lap_distances[MaxLen] + norm.track_length + norm.lap_start_offset) * Scale

----------------------------------------------------------------------------
(* DistanceNormalizer.map_to_track_position (distance_normalizer.py lines
   137-163).  The index returned is 0-based, as in the source. *)

AbsDiff(a, b) == IF a >= b THEN a - b ELSE b - a

\* a mutated comparison: a sample as close as the best one replaces it
CloserOrEqual(diff, best_diff) == diff <= best_diff

\* line 159
Closer(diff, best_diff) == diff < best_diff

\* lines 158-161: the scan from sample i (1-based) on
RECURSIVE ScanClosest(_, _, _, _, _)
ScanClosest(distances, i, target_dist, best_idx, best_diff) ==
  IF i > Len(distances) THEN best_idx
  ELSE LET diff == AbsDiff(distances[i], target_dist)
       IN IF Closer(diff, best_diff)
            THEN ScanClosest(distances, i + 1, target_dist, i - 1, diff)
            ELSE ScanClosest(distances, i + 1, target_dist, best_idx, best_diff)

MapToTrackPosition(normalized_distance, target_dist) ==
  LET distances == normalized_distance.normalized_distances
  IN IF distances = <<>> THEN 0
     ELSE ScanClosest(distances, 1, target_dist, 0, AbsDiff(distances[1], target_dist))

\* target distances in metres
TargetValues == {0, 5, 10, 20, 27, 60, 100}

\* one call on the result of a normalization; a behaviour is a single call
MapToTrackPositionCall ==
  /\ log = <<>>
  /\ \E d \in SeqsUpTo(DistValues, MaxLen), off \in Offsets, t \in TargetValues :
     LET normalized == Normalize(d, off)
     IN /\ log' = <<[op |-> "map_to_track_position",
                     distances |-> normalized.normalized_distances,
                     target_dist |-> t * Scale,
                     result |-> MapToTrackPosition(normalized, t * Scale)]>>
        /\ UNCHANGED <<norm, tier1, tier2>>

InitMap == norm = NormIdle /\ tier1 = <<>> /\ tier2 = <<>> /\ log = <<>>

NextMap == MapToTrackPositionCall

SpecMap == InitMap /\ [][NextMap]_vars

\* C12: map_to_track_position returns the smallest index whose distance is
\* closest to the target (of equally close samples the earliest); when the
\* target is a member of a non-decreasing sequence the distance at the index
\* returned equals the target; for an empty sequence it returns 0.
C12_NearestEarliest ==
  \A k \in 1..Len(log) :
     log[k].op = "map_to_track_position" =>
       LET d == log[k].distances
           t == log[k].target_dist
           r == log[k].result
       IN /\ d = <<>> => r = 0
          /\ d # <<>> =>
               /\ r + 1 \in 1..Len(d)
               /\ \A j \in 1..Len(d) : AbsDiff(d[r + 1], t) <= AbsDiff(d[j], t)
               /\ \A j \in 1..r : AbsDiff(d[j], t) > AbsDiff(d[r + 1], t)
          /\ (NonDecreasing(d) /\ \E j \in 1..Len(d) : d[j] = t) => d[r + 1] = t

\* the target is a member, twice, of a non-decreasing sequence: a tie
C12_Witness ==
  /\ Len(log) = 1 /\ log[1].op = "map_to_track_position"
  /\ log[1].distances # <<>> /\ NonDecreasing(log[1].distances)
  /\ log[1].distances[log[1].result + 1] = log[1].target_dist
  /\ \E j \in (log[1].result + 2)..Len(log[1].distances) :
        log[1].distances[j] = log[1].target_dist

----------------------------------------------------------------------------
(* SegmentCache, Tier 1: track layouts (segment_cache.py lines 43-220) *)

\* most calls in one behaviour of the cache and service specifications
MaxCalls == 2

\* str.replace(" ", "_").replace("/", "_")
SafeChar(c) == IF c = " " \/ c = "/" THEN "_" ELSE c
Safe(s) == [i \in 1..Len(s) |-> SafeChar(s[i])]

\* _make_track_key: f"{safe_name}_{safe_layout}_v{version}" or f"{safe_name}_v{version}"
MakeTrackKey(track_name, layout, version) ==
  IF ~IsNone(layout) /\ Val(layout) # <<>>
    THEN Safe(track_name) \o <<"_">> \o Safe(Val(layout)) \o <<"_", "v", ToString(version)>>
    ELSE Safe(track_name) \o <<"_", "v", ToString(version)>>

\* a DuckDB file: each table is absent or holds its rows in insertion order
EmptyFile == [meta_table |-> FALSE, meta |-> <<>>, seg_table |-> FALSE, segments |-> <<>>]

\* the directory with file k set to f / removed
Put(dir, k, f) == [x \in (DOMAIN dir) \cup {k} |-> IF x = k THEN f ELSE dir[x]]
Remove(dir, k) == [x \in (DOMAIN dir) \ {k} |-> dir[x]]

\* duckdb.connect(path): the file as opened for writing (created when missing)
OpenForWrite(dir, k) == IF k \in DOMAIN dir THEN dir[k] ELSE EmptyFile

\* the VALUES lists of the two INSERT statements of save_layout
LayoutMetaRow(layout) ==
  <<layout.track_name, layout.track_layout, layout.version, layout.track_length,
    layout.reference_lap_number, layout.reference_session_id>>

SegmentRow(seg) ==
  <<seg.segment_id, seg.segment_type, seg.start_dist, seg.end_dist,
    seg.entry_dist, seg.apex_dist, seg.exit_dist>>

\* statement j of save_layout (each statement commits on its own):
\* 1, 2 the DROPs; 3 CREATE layout_meta; 4 INSERT; 5 CREATE segments; 5+i INSERT segment i
SaveLayoutStatement(file, layout, j) ==
  CASE j = 1 -> [file EXCEPT !.meta_table = FALSE, !.meta = <<>>]
    [] j = 2 -> [file EXCEPT !.seg_table = FALSE, !.segments = <<>>]
    [] j = 3 -> [file EXCEPT !.meta_table = TRUE, !.meta = <<>>]
    [] j = 4 -> [file EXCEPT !.meta = Append(file.meta, LayoutMetaRow(layout))]
    [] j = 5 -> [file EXCEPT !.seg_table = TRUE, !.segments = <<>>]
    [] OTHER -> [file EXCEPT !.segments = Append(file.segments, SegmentRow(layout.segments[j - 5]))]

SaveLayoutStatements(layout) == 5 + Len(layout.segments)

\* the file after the first k statements of save_layout
RECURSIVE SaveLayoutPrefix(_, _, _)
SaveLayoutPrefix(file, layout, k) ==
  IF k = 0 THEN file
  ELSE SaveLayoutStatement(SaveLayoutPrefix(file, layout, k - 1), layout, k)

\* ORDER BY start_dist: may row r1 come before row r2
SegmentBefore(r1, r2) == r1[3] <= r2[3]

\* the orders in which a query with ORDER BY may return the rows: every
\* permutation that is sorted by the key; rows with equal keys come in any order
OrderedBy(rows, Before(_, _)) ==
  LET n == Len(rows)
      perms == {p \in [1..n -> 1..n] : \A a, b \in 1..n : a # b => p[a] # p[b]}
  IN {[i \in 1..n |-> rows[p[i]]] : p \in
        {q \in perms : \A a, b \in 1..n : a < b => Before(rows[q[a]], rows[q[b]])}}

SegmentOfRow(row) ==
  [segment_id |-> row[1], segment_type |-> row[2], start_dist |-> row[3],
   end_dist |-> row[4], entry_dist |-> row[5], apex_dist |-> row[6], exit_dist |-> row[7]]

\* a mutated read: the session and lap columns of layout_meta are swapped with
\* the track length (a SELECT column list that does not match the unpacking)
LayoutOfRowsShifted(meta_row, seg_rows) ==
  [track_name |-> meta_row[1], track_layout |-> meta_row[2], version |-> meta_row[3],
   track_length |-> meta_row[5],
   segments |-> [i \in 1..Len(seg_rows) |-> SegmentOfRow(seg_rows[i])],
   reference_lap_number |-> meta_row[4],
   reference_session_id |-> meta_row[6]]

\* lines 85-120: the TrackLayout built from the rows read
LayoutOfRows(meta_row, seg_rows) ==
  [track_name |-> meta_row[1], track_layout |-> meta_row[2], version |-> meta_row[3],
   track_length |-> meta_row[4],
   segments |-> [i \in 1..Len(seg_rows) |-> SegmentOfRow(seg_rows[i])],
   reference_lap_number |-> meta_row[5],
   reference_session_id |-> meta_row[6]]

\* get_layout: the results the call may return (None, or Some layout; more
\* than one only when two segment rows have the same start_dist)
GetLayout(dir, track_name, layout, version) ==
  LET track_key == MakeTrackKey(track_name, layout, version)
  IN IF track_key \notin DOMAIN dir THEN {None}          \* line 69
     ELSE LET file == dir[track_key]
          IN IF ~file.meta_table THEN {None}              \* the SELECT raises: line 122
             ELSE IF file.meta = <<>> THEN {None}         \* line 81
             ELSE IF ~file.seg_table THEN {None}          \* the SELECT raises: line 122
             ELSE {Some(LayoutOfRows(file.meta[1], rows)) :
                     rows \in OrderedBy(file.segments, SegmentBefore)}

\* save_layout that executes its first k statements; it returns normally when
\* k is all of them and raises at statement k + 1 otherwise
SaveLayoutDir(dir, layout, k) ==
  LET track_key == MakeTrackKey(layout.track_name, layout.track_layout, layout.version)
  IN Put(dir, track_key, SaveLayoutPrefix(OpenForWrite(dir, track_key), layout, k))

\* invalidate_layout
InvalidateLayoutDir(dir, track_name, layout, version) ==
  LET track_key == MakeTrackKey(track_name, layout, version)
  IN IF track_key \in DOMAIN dir THEN Remove(dir, track_key) ELSE dir

(* Inputs of the Tier-1 specification *)

Seg(id, type, start, end, entry, apex, exit) ==
  [segment_id |-> id, segment_type |-> type, start_dist |-> start, end_dist |-> end,
   entry_dist |-> entry, apex_dist |-> apex, exit_dist |-> exit]

SegS1 == Seg("S1", "straight", 0, 40, None, None, None)
SegT1 == Seg("T1", "corner", 40, 100, Some(35), Some(60), Some(90))
SegS2 == Seg("S2", "straight", 100, 100, None, None, None)
SegT2 == Seg("T2", "corner", 100, 30, None, Some(100), None)

\* in start_dist order, against it, and with two segments starting at 100
SegmentLists ==
  {<<>>, <<SegS1, SegT1>>, <<SegT1, SegS1>>, <<SegT2, SegS2>>}

NameAB == <<"A", " ", "B">>
NameA == <<"A">>
VariantB == <<"B">>

\* (track_name, track_layout, version): the first two give the same file name
TrackTriples ==
  {<<NameAB, None, 1>>, <<NameA, Some(VariantB), 1>>, <<NameAB, None, 2>>}

LayoutInputs ==
  {[track_name |-> t[1], track_layout |-> t[2], version |-> t[3],
    track_length |-> 100 + Len(segs),
    segments |-> segs,
    reference_lap_number |-> t[3] + Len(segs),
    reference_session_id |-> "sA"] : t \in TrackTriples, segs \in SegmentLists}

CallsLeft == Len(log) < MaxCalls

\* save_layout(layout) that returns
SaveLayoutOk ==
  /\ CallsLeft
  /\ \E layout \in LayoutInputs :
       /\ tier1' = SaveLayoutDir(tier1, layout, SaveLayoutStatements(layout))
       /\ log' = Append(log, [op |-> "save_layout", layout |-> layout, ok |-> TRUE,
                              before |-> GetLayout(tier1, layout.track_name,
                                                   layout.track_layout, layout.version),
                              dir_before |-> tier1])
  /\ UNCHANGED <<norm, tier2>>

\* save_layout(layout) whose statement k + 1 raises (line 198: logged, re-raised)
SaveLayoutFails ==
  /\ CallsLeft
  /\ \E layout \in LayoutInputs :
       \E k \in 0..(SaveLayoutStatements(layout) - 1) :
         /\ tier1' = SaveLayoutDir(tier1, layout, k)
         /\ log' = Append(log, [op |-> "save_layout", layout |-> layout, ok |-> FALSE,
                                before |-> GetLayout(tier1, layout.track_name,
                                                     layout.track_layout, layout.version),
                                dir_before |-> tier1])
  /\ UNCHANGED <<norm, tier2>>

\* get_layout(track_name, layout, version)
GetLayoutCall ==
  /\ CallsLeft
  /\ \E t \in TrackTriples :
       \E r \in GetLayout(tier1, t[1], t[2], t[3]) :
         log' = Append(log, [op |-> "get_layout", track_name |-> t[1],
                             track_layout |-> t[2], version |-> t[3], result |-> r])
  /\ UNCHANGED <<norm, tier1, tier2>>

\* invalidate_layout(track_name, layout, version)
InvalidateLayoutCall ==
  /\ CallsLeft
  /\ \E t \in TrackTriples :
       /\ tier1' = InvalidateLayoutDir(tier1, t[1], t[2], t[3])
       /\ log' = Append(log, [op |-> "invalidate_layout", track_name |-> t[1],
                              track_layout |-> t[2], version |-> t[3],
                              result |-> MakeTrackKey(t[1], t[2], t[3]) \in DOMAIN tier1])
  /\ UNCHANGED <<norm, tier2>>

InitCache == norm = NormIdle /\ tier1 = <<>> /\ tier2 = <<>> /\ log = <<>>

NextLayoutCache ==
  \/ SaveLayoutOk
  \/ SaveLayoutFails
  \/ GetLayoutCall
  \/ InvalidateLayoutCall

SpecLayoutCache == InitCache /\ [][NextLayoutCache]_vars

----------------------------------------------------------------------------
(* Claims about the Tier-1 cache *)

LayoutTriple(layout) == <<layout.track_name, layout.track_layout, layout.version>>

IsSaveLayout(e, ok) == e.op = "save_layout" /\ e.ok = ok

IsGetLayoutOf(e, layout) ==
  e.op = "get_layout" /\ <<e.track_name, e.track_layout, e.version>> = LayoutTriple(layout)

StrictlyByStart(segs) ==
  \A i \in 1..(Len(segs) - 1) : segs[i].start_dist < segs[i + 1].start_dist

\* what get_layout returns for the key of the layout in the present state
GetLayoutNow(layout) ==
  GetLayout(tier1, layout.track_name, layout.track_layout, layout.version)

\* C3 (as claimed): for every TrackLayout L, save_layout(L) followed by
\* get_layout with L's track name, variant and version returns L, segments in
\* the same order.
C3_AsClaimed ==
  \A i \in 1..Len(log) :
     IsSaveLayout(log[i], TRUE) =>
        /\ i = Len(log) => GetLayoutNow(log[i].layout) = {Some(log[i].layout)}
        /\ (i < Len(log) /\ IsGetLayoutOf(log[i + 1], log[i].layout)) =>
              log[i + 1].result = Some(log[i].layout)

\* C3 (amended): for every TrackLayout L whose segments are in strictly
\* increasing start_dist order, save_layout(L) followed by get_layout with L's
\* track name, variant and version returns a layout equal to L in every field,
\* segments in the same order.
C3_RoundTripSorted ==
  \A i \in 1..Len(log) :
     (IsSaveLayout(log[i], TRUE) /\ StrictlyByStart(log[i].layout.segments)) =>
        /\ i = Len(log) => GetLayoutNow(log[i].layout) = {Some(log[i].layout)}
        /\ (i < Len(log) /\ IsGetLayoutOf(log[i + 1], log[i].layout)) =>
              log[i + 1].result = Some(log[i].layout)

\* a layout with two segments was saved and the next call read it back
C3_Witness ==
  /\ Len(log) = 2
  /\ IsSaveLayout(log[1], TRUE)
  /\ Len(log[1].layout.segments) = 2
  /\ StrictlyByStart(log[1].layout.segments)
  /\ IsGetLayoutOf(log[2], log[1].layout)
  /\ log[2].result = Some(log[1].layout)

\* C6 (as claimed): when save_layout fails at any statement, get_layout
\* afterwards observes what it observed before the failed write.
C6_FailedWriteLeavesEntry ==
  \A i \in 1..Len(log) :
     (i = Len(log) /\ IsSaveLayout(log[i], FALSE)) =>
        GetLayoutNow(log[i].layout) = log[i].before

----------------------------------------------------------------------------
(* SegmentCache, Tier 2: lap metrics (segment_cache.py lines 226-456) *)

\* VARCHAR comparison of the segment ids that occur, as ORDER BY segment_id uses it
SegmentIdOrder == <<"", "C1", "C2", "S1", "S2", "S3", "T1", "T2", "T3">>
IdRank(id) == CHOOSE i \in 1..Len(SegmentIdOrder) : SegmentIdOrder[i] = id

MetricsMetaRow(metrics) ==
  <<metrics.session_id, metrics.lap_number, metrics.layout_version,
    metrics.track_length, metrics.total_time>>

MetricsRow(seg) ==
  <<seg.segment_id, seg.entry_speed, seg.mid_speed, seg.exit_speed, seg.min_speed,
    seg.max_speed, seg.segment_time, seg.time_delta_to_reference, seg.braking_distance,
    seg.max_brake_pressure, seg.throttle_application, seg.steering_smoothness,
    seg.avg_speed>>

\* statement j of save_lap_metrics: 1, 2 the DROPs; 3 CREATE meta; 4 INSERT;
\* 5 CREATE segment_metrics; 5+i INSERT segment i
SaveMetricsStatement(file, metrics, j) ==
  CASE j = 1 -> [file EXCEPT !.meta_table = FALSE, !.meta = <<>>]
    [] j = 2 -> [file EXCEPT !.seg_table = FALSE, !.segments = <<>>]
    [] j = 3 -> [file EXCEPT !.meta_table = TRUE, !.meta = <<>>]
    [] j = 4 -> [file EXCEPT !.meta = Append(file.meta, MetricsMetaRow(metrics))]
    [] j = 5 -> [file EXCEPT !.seg_table = TRUE, !.segments = <<>>]
    [] OTHER -> [file EXCEPT !.segments = Append(file.segments, MetricsRow(metrics.segments[j - 5]))]

SaveMetricsStatements(metrics) == 5 + Len(metrics.segments)

RECURSIVE SaveMetricsPrefix(_, _, _)
SaveMetricsPrefix(file, metrics, k) ==
  IF k = 0 THEN file
  ELSE SaveMetricsStatement(SaveMetricsPrefix(file, metrics, k - 1), metrics, k)

\* _get_metrics_path: metrics/<session_id>/lap_<lap_number>.parquet
MetricsPath(session_id, lap_number) == <<session_id, lap_number>>

\* save_lap_metrics that executes its first k statements
SaveLapMetricsDir(dir, metrics, k) ==
  LET cache_path == MetricsPath(metrics.session_id, metrics.lap_number)
  IN Put(dir, cache_path, SaveMetricsPrefix(OpenForWrite(dir, cache_path), metrics, k))

\* a mutated invalidate_lap_metrics: the file is not unlinked
InvalidateLapMetricsKeeps(dir, session_id, lap_number) == dir

\* invalidate_lap_metrics
InvalidateLapMetrics(dir, session_id, lap_number) ==
  LET cache_path == MetricsPath(session_id, lap_number)
  IN IF cache_path \in DOMAIN dir THEN Remove(dir, cache_path) ELSE dir

\* invalidate_session_metrics: every lap file of the session
InvalidateSessionMetrics(dir, session_id) ==
  [x \in {y \in DOMAIN dir : y[1] # session_id} |-> dir[x]]

MetricsBefore(r1, r2) == IdRank(r1[1]) <= IdRank(r2[1])

\* lines 285-320: one SegmentMetrics per row, lap and session from the arguments
SegmentMetricsOfRow(row, session_id, lap_number) ==
  [segment_id |-> row[1], lap_number |-> lap_number, session_id |-> session_id,
   entry_speed |-> row[2], mid_speed |-> row[3], exit_speed |-> row[4],
   min_speed |-> row[5], max_speed |-> row[6], segment_time |-> row[7],
   time_delta_to_reference |-> row[8], braking_distance |-> row[9],
   max_brake_pressure |-> row[10], throttle_application |-> row[11],
   steering_smoothness |-> row[12], avg_speed |-> row[13]]

\* float(total_time) if total_time else None
TotalTimeRead(total_time) ==
  IF IsNone(total_time) \/ Val(total_time) = 0 THEN None ELSE total_time

\* the meta rows WHERE session_id = ? AND lap_number = ?
MetaRowsFor(file, session_id, lap_number) ==
  SelectSeq(file.meta, LAMBDA r : r[1] = session_id /\ r[2] = lap_number)

\* line 256: not version_result or version_result[0] != layout_version
VersionStale(version_rows, layout_version) ==
  version_rows = <<>> \/ version_rows[1][3] # layout_version

\* get_lap_metrics of the cache: the outcomes the call may have, each the
\* value returned and the directory it leaves
GetLapMetricsCache(dir, session_id, lap_number, layout_version) ==
  LET cache_path == MetricsPath(session_id, lap_number)
  IN IF cache_path \notin DOMAIN dir THEN {[result |-> None, dir |-> dir]}     \* line 244
     ELSE LET file == dir[cache_path]
              rows == MetaRowsFor(file, session_id, lap_number)
          IN IF ~file.meta_table THEN {[result |-> None, dir |-> dir]}         \* line 333
             ELSE IF VersionStale(rows, layout_version)                        \* line 256
               THEN {[result |-> None,
                      dir |-> InvalidateLapMetrics(dir, session_id, lap_number)]}
             ELSE IF ~file.seg_table THEN {[result |-> None, dir |-> dir]}     \* line 333
             ELSE {[result |-> Some(
                      [session_id |-> session_id, lap_number |-> lap_number,
                       layout_version |-> layout_version,
                       track_length |-> rows[1][4],
                       total_time |-> TotalTimeRead(rows[1][5]),
                       segments |-> [i \in 1..Len(srows) |->
                                       SegmentMetricsOfRow(srows[i], session_id, lap_number)]]),
                    dir |-> dir] : srows \in OrderedBy(file.segments, MetricsBefore)}

(* Inputs of the Tier-2 specification *)

SegMetrics(id, lap_number, session_id, time, delta, speed) ==
  [segment_id |-> id, lap_number |-> lap_number, session_id |-> session_id,
   entry_speed |-> speed, mid_speed |-> speed, exit_speed |-> speed,
   min_speed |-> speed, max_speed |-> speed, segment_time |-> time,
   time_delta_to_reference |-> delta, braking_distance |-> None,
   max_brake_pressure |-> None, throttle_application |-> None,
   steering_smoothness |-> None, avg_speed |-> speed]

\* segment rows in segment_id order and in track order (T1 before S1)
MetricsLists(session_id, lap_number) ==
  {<<>>,
   <<SegMetrics("S1", lap_number, session_id, 3, None, Some(50)),
     SegMetrics("T1", lap_number, session_id, 2, Some(1), None)>>,
   <<SegMetrics("T1", 0, "", 2, None, None),
     SegMetrics("S1", 0, "", 0, None, None)>>}

CacheSessions == {"sA"}
CacheLaps == {1, 2}
CacheVersions == {1, 2}

MetricsInputs ==
  {[session_id |-> s, lap_number |-> n, layout_version |-> v,
    track_length |-> 100 + Len(segs),
    total_time |-> IF segs = <<>> THEN None ELSE Some(Len(segs) - 2 + n),
    segments |-> segs] :
     s \in CacheSessions, n \in CacheLaps, v \in CacheVersions,
     segs \in UNION {MetricsLists(s2, n2) : s2 \in CacheSessions, n2 \in CacheLaps}}

\* the layout_version column of a readable entry, None when there is none
StoredVersion(dir, session_id, lap_number) ==
  LET cache_path == MetricsPath(session_id, lap_number)
  IN IF cache_path \notin DOMAIN dir THEN None
     ELSE LET file == dir[cache_path]
              rows == MetaRowsFor(file, session_id, lap_number)
          IN IF file.meta_table /\ rows # <<>> /\ file.seg_table
               THEN Some(rows[1][3]) ELSE None

\* save_lap_metrics(metrics) that returns
SaveLapMetricsOk ==
  /\ CallsLeft
  /\ \E metrics \in MetricsInputs :
       /\ tier2' = SaveLapMetricsDir(tier2, metrics, SaveMetricsStatements(metrics))
       /\ log' = Append(log, [op |-> "save_lap_metrics", metrics |-> metrics, ok |-> TRUE,
                              dir_before |-> tier2])
  /\ UNCHANGED <<norm, tier1>>

\* save_lap_metrics(metrics) whose statement k + 1 raises (line 415)
SaveLapMetricsFails ==
  /\ CallsLeft
  /\ \E metrics \in MetricsInputs :
       \E k \in 0..(SaveMetricsStatements(metrics) - 1) :
         /\ tier2' = SaveLapMetricsDir(tier2, metrics, k)
         /\ log' = Append(log, [op |-> "save_lap_metrics", metrics |-> metrics, ok |-> FALSE,
                                dir_before |-> tier2])
  /\ UNCHANGED <<norm, tier1>>

\* get_lap_metrics(session_id, lap_number, layout_version) of the cache
GetLapMetricsCacheCall ==
  /\ CallsLeft
  /\ \E s \in CacheSessions, n \in CacheLaps, v \in CacheVersions :
       \E out \in GetLapMetricsCache(tier2, s, n, v) :
         /\ tier2' = out.dir
         /\ log' = Append(log, [op |-> "cache_get_lap_metrics", session_id |-> s,
                                lap_number |-> n, layout_version |-> v,
                                stored |-> StoredVersion(tier2, s, n),
                                result |-> out.result, dir_before |-> tier2])
  /\ UNCHANGED <<norm, tier1>>

\* invalidate_lap_metrics(session_id, lap_number)
InvalidateLapMetricsCall ==
  /\ CallsLeft
  /\ \E s \in CacheSessions, n \in CacheLaps :
       /\ tier2' = InvalidateLapMetrics(tier2, s, n)
       /\ log' = Append(log, [op |-> "invalidate_lap_metrics", session_id |-> s,
                              lap_number |-> n,
                              result |-> MetricsPath(s, n) \in DOMAIN tier2])
  /\ UNCHANGED <<norm, tier1>>

\* invalidate_session_metrics(session_id)
InvalidateSessionMetricsCall ==
  /\ CallsLeft
  /\ \E s \in CacheSessions :
       /\ tier2' = InvalidateSessionMetrics(tier2, s)
       /\ log' = Append(log, [op |-> "invalidate_session_metrics", session_id |-> s,
                              result |-> Cardinality({x \in DOMAIN tier2 : x[1] = s})])
  /\ UNCHANGED <<norm, tier1>>

NextMetricsCache ==
  \/ SaveLapMetricsOk
  \/ SaveLapMetricsFails
  \/ GetLapMetricsCacheCall
  \/ InvalidateLapMetricsCall
  \/ InvalidateSessionMetricsCall

SpecMetricsCache == InitCache /\ [][NextMetricsCache]_vars

----------------------------------------------------------------------------
(* Claims about the Tier-2 cache *)

IsCacheGet(e) == e.op = "cache_get_lap_metrics"

AllMisses(dir, session_id, lap_number) ==
  \A v \in CacheVersions :
     \A out \in GetLapMetricsCache(dir, session_id, lap_number, v) : IsNone(out.result)

\* C2: a read with layout version v of an entry saved with version w # v
\* returns None and deletes the entry, so that a read with any version
\* afterwards is a miss; with w = v the read returns the entry (its session,
\* lap, version, track length and segment ids) and leaves the cache as it was.
C2_VersionMismatchInvalidates ==
  \A i \in 1..Len(log) :
     (i = Len(log) /\ IsCacheGet(log[i]) /\ ~IsNone(log[i].stored)) =>
        LET e == log[i]
            cache_path == MetricsPath(e.session_id, e.lap_number)
        IN IF Val(e.stored) # e.layout_version
             THEN /\ IsNone(e.result)
                  /\ cache_path \notin DOMAIN tier2
                  /\ AllMisses(tier2, e.session_id, e.lap_number)
             ELSE /\ ~IsNone(e.result)
                  /\ Val(e.result).session_id = e.session_id
                  /\ Val(e.result).lap_number = e.lap_number
                  /\ Val(e.result).layout_version = e.layout_version
                  /\ Val(e.result).track_length = e.dir_before[cache_path].meta[1][4]
                  /\ {Val(e.result).segments[k].segment_id : k \in 1..Len(Val(e.result).segments)}
                       = {e.dir_before[cache_path].segments[k][1] :
                            k \in 1..Len(e.dir_before[cache_path].segments)}
                  /\ tier2 = e.dir_before

\* an entry saved with version 1 was read with version 2
C2_Witness ==
  /\ Len(log) = 2
  /\ log[1].op = "save_lap_metrics" /\ log[1].ok
  /\ log[1].metrics.layout_version = 1
  /\ Len(log[1].metrics.segments) = 2
  /\ IsCacheGet(log[2])
  /\ log[2].session_id = log[1].metrics.session_id
  /\ log[2].lap_number = log[1].metrics.lap_number
  /\ log[2].layout_version = 2
  /\ IsNone(log[2].result)
  /\ tier2 = <<>>

----------------------------------------------------------------------------
(* The recorded sessions the service reads (telemetry.py, duckdb_service.py,
   signals.py).  The recordings are fixed; the two cache tiers are the state. *)

NameUnknown == <<"U", "n", "k", "n", "o", "w", "n">>

\* list_sessions: id, track name and variant of every recording
SessionTable ==
  [sA |-> [id |-> "sA", track_name |-> Some(NameAB), track_layout |-> None],
   sB |-> [id |-> "sB", track_name |-> Some(NameAB), track_layout |-> None],
   sC |-> [id |-> "sC", track_name |-> None, track_layout |-> None],
   sD |-> [id |-> "sD", track_name |-> None, track_layout |-> None],
   sE |-> [id |-> "sE", track_name |-> Some(NameAB), track_layout |-> None]]

\* the "Lap" rows of each recording with the "Lap Time" value found at the
\* start of the next lap (None when there is none or it is not > 0)
LapRows ==
  [sA |-> <<[lap_num |-> 1, lap_time |-> Some(100)], [lap_num |-> 2, lap_time |-> Some(95)],
            [lap_num |-> 3, lap_time |-> Some(97)], [lap_num |-> 4, lap_time |-> Some(99)]>>,
   sB |-> <<>>,
   sC |-> <<[lap_num |-> 1, lap_time |-> Some(90)], [lap_num |-> 2, lap_time |-> None]>>,
   sD |-> <<[lap_num |-> 1, lap_time |-> None]>>,
   sE |-> <<[lap_num |-> 1, lap_time |-> Some(91)], [lap_num |-> 2, lap_time |-> Some(96)],
            [lap_num |-> 3, lap_time |-> None]>>]

\* the channels each recording holds
ChannelTable ==
  [sA |-> {"Steering Pos", "Brake Pos", "Throttle Pos", "Ground Speed", "Lap Dist"},
   sB |-> {"Steering Pos", "Lap Dist"},
   sC |-> {"Steering Pos", "Brake Pos", "Ground Speed"},
   sD |-> {"Steering Pos", "Lap Dist"},
   sE |-> {"Steering Pos", "Brake Pos", "Throttle Pos", "Ground Speed", "Lap Dist"}]

\* the samples of a channel within a lap: in lap 3 of sA the steering channel
\* has more samples than Lap Dist and the lap ends while steering
SignalValues(session_id, lap_number, channel) ==
  IF channel = "Lap Dist" THEN <<0, 50, 100>>
  ELSE IF channel = "Steering Pos"
    THEN (IF session_id = "sA" /\ lap_number = 3 THEN <<0, 0, 0, 0, 9>>
          ELSE IF lap_number = 1 THEN <<0, 9, 9>> ELSE <<0, 9, 0>>)
  ELSE <<0, 0, 0>>

\* TelemetryManager.get_session
GetSession(session_id) ==
  IF session_id \in DOMAIN SessionTable THEN Some(SessionTable[session_id]) ELSE None

\* DuckDBService.get_laps: the last lap has no end and so no lap time
GetLaps(session_id) ==
  LET rows == LapRows[session_id]
  IN [i \in 1..Len(rows) |->
        LET lap_time == IF i < Len(rows) THEN rows[i].lap_time ELSE None
        IN [lap_number |-> rows[i].lap_num, lap_time |-> lap_time,
            valid |-> ~IsNone(lap_time) /\ Val(lap_time) > 0]]

HasLap(laps, lap_number) == \E i \in 1..Len(laps) : laps[i].lap_number = lap_number

\* _find_lap once HasLap holds: the first lap with the number
FindLap(laps, lap_number) ==
  laps[CHOOSE i \in 1..Len(laps) :
         /\ laps[i].lap_number = lap_number
         /\ \A j \in 1..(i - 1) : laps[j].lap_number # lap_number]

\* outcomes of a call: a value, ValueError (HTTP 404) or another exception (500)
Ok(v) == [kind |-> "ok", value |-> v]
\* a mutated outcome: the ValueError is reported as any other exception
NotFoundAsInternal == [kind |-> "internal", value |-> None]
NotFound == [kind |-> "not_found", value |-> None]
Internal == [kind |-> "internal", value |-> None]

\* SignalService.get_lap_signals: one SignalSlice per requested channel the
\* recording holds, in the order requested
GetLapSignals(session_id, lap_number, channels) ==
  IF IsNone(GetSession(session_id)) THEN NotFound                    \* signals.py line 68
  ELSE IF ~HasLap(GetLaps(session_id), lap_number) THEN NotFound     \* signals.py line 70
  ELSE LET present == SelectSeq(channels, LAMBDA c : c \in ChannelTable[session_id])
       IN Ok([i \in 1..Len(present) |->
                [channel |-> present[i], lap_number |-> lap_number, session_id |-> session_id,
                 values |-> SignalValues(session_id, lap_number, present[i])]])

\* signal_map = {s.channel: s for s in signals}
SignalMap(signals) ==
  [c \in {signals[i].channel : i \in 1..Len(signals)} |->
     signals[CHOOSE i \in 1..Len(signals) :
               signals[i].channel = c /\ \A j \in (i + 1)..Len(signals) : signals[j].channel # c]]

\* dict.get
MapGet(map, k) == IF k \in DOMAIN map THEN Some(map[k]) ELSE None

\* a SignalSlice passed to a function directly
Signal(channel, values) ==
  Some([channel |-> channel, lap_number |-> 1, session_id |-> "sA", values |-> values])

Constant(n, v) == [i \in 1..n |-> v]

----------------------------------------------------------------------------
(* ReferenceLapSelector.select_reference_lap (reference_lap.py lines 32-129) *)

MAX_STEERING_RATE == 500
STEERING_CONSISTENCY_THRESHOLD == 200
MIN_SAMPLES == 100

RECURSIVE SumOf(_)
\* sum(values), added up by halves to keep the evaluation shallow
SumOf(values) ==
  IF values = <<>> THEN 0
  ELSE IF Len(values) = 1 THEN values[1]
  ELSE SumOf(SubSeq(values, 1, Len(values) \div 2))
       + SumOf(SubSeq(values, Len(values) \div 2 + 1, Len(values)))

\* _analyze_steering (lines 131-154)
AnalyzeSteering(values) ==
  IF Len(values) < 2 THEN 0
  ELSE LET rates == [i \in 1..(Len(values) - 1) |-> AbsDiff(values[i + 1], values[i])]
       IN IF \E i \in 1..Len(rates) : rates[i] > MAX_STEERING_RATE THEN 0
          ELSE IF SumOf(rates) < STEERING_CONSISTENCY_THRESHOLD * Len(rates) THEN 30
          ELSE 15

\* _analyze_braking (lines 156-183); a sample brakes when it exceeds
\* BRAKE_THRESHOLD (0.1), a zone begins at a braking sample that follows none
AnalyzeBraking(values) ==
  LET braking_zones == Cardinality({i \in 1..Len(values) :
                                      values[i] > 0 /\ (i = 1 \/ values[i - 1] <= 0)})
  IN IF Len(values) < MIN_SAMPLES THEN 0
     ELSE IF 6 <= braking_zones /\ braking_zones <= 20 THEN 20
     ELSE IF braking_zones > 30 THEN 0
     ELSE 10

\* lines 116-127 of _calculate_lap_score: the bonuses, the same for every lap
SignalBonus(steering_signal, brake_signal) ==
  (IF ~IsNone(steering_signal) /\ Len(Val(steering_signal).values) >= MIN_SAMPLES
     THEN AnalyzeSteering(Val(steering_signal).values) ELSE 0)
  + (IF ~IsNone(brake_signal) /\ Len(Val(brake_signal).values) >= MIN_SAMPLES
       THEN AnalyzeBraking(Val(brake_signal).values) ELSE 0)

\* score1 > score2 for two valid laps with times t1, t2 > 0, where
\* score = 100 * best_time / t + 50 + bonus, compared without division
ScoresHigher(lap1, lap2, best_time, bonus) ==
  (100 * best_time + (50 + bonus) * Val(lap1.lap_time)) * Val(lap2.lap_time)
    > (100 * best_time + (50 + bonus) * Val(lap2.lap_time)) * Val(lap1.lap_time)

\* a mutated user override: the preferred lap need not be valid
PreferredUsableAnyLap(laps, preferred_lap) ==
  /\ ~IsNone(preferred_lap)
  /\ \E i \in 1..Len(laps) : laps[i].lap_number = Val(preferred_lap)

\* lines 61-65
PreferredUsable(laps, preferred_lap) ==
  /\ ~IsNone(preferred_lap)
  /\ \E i \in 1..Len(laps) : laps[i].lap_number = Val(preferred_lap) /\ laps[i].valid

\* a mutated filter: any lap with a positive time is scored
IsCandidateAnyValidity(lap) == ~IsNone(lap.lap_time) /\ Val(lap.lap_time) > 0

\* line 69
IsCandidate(lap) == lap.valid /\ ~IsNone(lap.lap_time) /\ Val(lap.lap_time) > 0

\* lines 89-93: the stable descending sort puts first the earliest lap no
\* other lap outscores
BestScored(valid_laps, best_time, bonus) ==
  CHOOSE i \in 1..Len(valid_laps) :
    /\ \A j \in 1..Len(valid_laps) :
          ~ScoresHigher(valid_laps[j], valid_laps[i], best_time, bonus)
    /\ \A j \in 1..(i - 1) : ScoresHigher(valid_laps[i], valid_laps[j], best_time, bonus)

\* line 75
BestTime(valid_laps) ==
  CHOOSE t \in {Val(valid_laps[i].lap_time) : i \in 1..Len(valid_laps)} :
    \A i \in 1..Len(valid_laps) : t <= Val(valid_laps[i].lap_time)

\* lines 69-96, for the laps that are scored
SelectScored(valid_laps, steering_signal, brake_signal) ==
  IF valid_laps = <<>> THEN None
  ELSE Some(valid_laps[BestScored(valid_laps, BestTime(valid_laps),
                                  SignalBonus(steering_signal, brake_signal))].lap_number)

SelectReferenceLap(laps, steering_signal, brake_signal, preferred_lap) ==
  IF laps = <<>> THEN None
  ELSE IF PreferredUsable(laps, preferred_lap) THEN preferred_lap
  ELSE SelectScored(SelectSeq(laps, IsCandidate), steering_signal, brake_signal)

(* Inputs of the selection specification *)

MaxLaps == 3

SelectLapTimes == {None, Some(0), Some(90), Some(95)}

\* the laps of a session are numbered from 1 in the order recorded
SelectLapLists ==
  UNION {{[i \in 1..n |-> [lap_number |-> i, lap_time |-> f[i][1], valid |-> f[i][2]]] :
            f \in [1..n -> SelectLapTimes \X BOOLEAN]} : n \in 0..MaxLaps}

Alternating(n, v) == [i \in 1..n |-> IF i % 2 = 0 THEN v ELSE 0]

\* no signal, a smooth recording (bonus 30) and one with spins (bonus 0)
SelectSteeringInputs ==
  {None, Signal("Steering Pos", Constant(MIN_SAMPLES, 0)),
   Signal("Steering Pos", Alternating(MIN_SAMPLES, 600))}

\* no signal, a recording too short to analyse, and one of 50 braking zones
SelectBrakeInputs ==
  {None, Signal("Brake Pos", <<0, 1, 0>>), Signal("Brake Pos", Alternating(MIN_SAMPLES, 1))}

SelectPreferred == {None, Some(2), Some(9)}

\* one call of select_reference_lap; a behaviour is a single call
SelectReferenceLapCall ==
  /\ log = <<>>
  /\ \E laps \in SelectLapLists, steering \in SelectSteeringInputs,
        brake \in SelectBrakeInputs, preferred_lap \in SelectPreferred :
       /\ log' = <<[op |-> "select_reference_lap", laps |-> laps, steering |-> steering,
                    brake |-> brake, preferred_lap |-> preferred_lap,
                    result |-> SelectReferenceLap(laps, steering, brake, preferred_lap)]>>
       /\ UNCHANGED <<norm, tier1, tier2>>

InitSelect == norm = NormIdle /\ tier1 = <<>> /\ tier2 = <<>> /\ log = <<>>

NextSelect == SelectReferenceLapCall

SpecSelect == InitSelect /\ [][NextSelect]_vars

(* Claims about select_reference_lap *)

IsSelectCall(e) == e.op = "select_reference_lap"

ValidWithTime(lap) == lap.valid /\ ~IsNone(lap.lap_time) /\ Val(lap.lap_time) > 0

\* C17: without a preferred lap the result is None exactly when no lap is
\* valid with a positive lap time; otherwise, whatever the steering and brake
\* signals, it is the number of the first of the valid laps with the smallest
\* positive lap time.  An invalid lap is never returned.
C17_FastestValidLap ==
  \A k \in 1..Len(log) :
     (IsSelectCall(log[k]) /\ IsNone(log[k].preferred_lap)) =>
       LET laps == log[k].laps
           result == log[k].result
       IN /\ IsNone(result) <=> ~\E i \in 1..Len(laps) : ValidWithTime(laps[i])
          /\ ~IsNone(result) =>
                \E i \in 1..Len(laps) :
                   /\ laps[i].lap_number = Val(result)
                   /\ ValidWithTime(laps[i])
                   /\ \A j \in 1..Len(laps) :
                         ValidWithTime(laps[j]) => Val(laps[i].lap_time) <= Val(laps[j].lap_time)
                   /\ \A j \in 1..(i - 1) :
                         ValidWithTime(laps[j]) => Val(laps[i].lap_time) < Val(laps[j].lap_time)
          /\ \A i \in 1..Len(laps) : ~laps[i].valid => result # Some(laps[i].lap_number)

\* an invalid lap is the fastest, two valid laps tie behind it, and both
\* signals are long enough to be analysed
C17_Witness ==
  /\ Len(log) = 1 /\ IsSelectCall(log[1]) /\ IsNone(log[1].preferred_lap)
  /\ Len(log[1].laps) = 3
  /\ ~log[1].laps[1].valid /\ log[1].laps[1].lap_time = Some(90)
  /\ ValidWithTime(log[1].laps[2]) /\ ValidWithTime(log[1].laps[3])
  /\ log[1].laps[2].lap_time = log[1].laps[3].lap_time
  /\ ~IsNone(log[1].steering) /\ ~IsNone(log[1].brake)
  /\ Len(Val(log[1].brake).values) >= MIN_SAMPLES
  /\ log[1].result = Some(2)

\* C18: a preferred lap that is in the list and valid is returned whatever
\* the lap times; otherwise the result is that of the call without a
\* preferred lap.
C18_PreferredLapWins ==
  \A k \in 1..Len(log) :
     (IsSelectCall(log[k]) /\ ~IsNone(log[k].preferred_lap)) =>
       IF \E i \in 1..Len(log[k].laps) :
             log[k].laps[i].lap_number = Val(log[k].preferred_lap) /\ log[k].laps[i].valid
         THEN log[k].result = log[k].preferred_lap
         ELSE log[k].result
                = SelectReferenceLap(log[k].laps, log[k].steering, log[k].brake, None)

\* the preferred lap is valid, has no lap time, and another lap is the fastest
C18_Witness ==
  /\ Len(log) = 1 /\ IsSelectCall(log[1])
  /\ log[1].preferred_lap = Some(2)
  /\ Len(log[1].laps) = 3
  /\ log[1].laps[2].valid /\ IsNone(log[1].laps[2].lap_time)
  /\ ValidWithTime(log[1].laps[3])
  /\ log[1].result = Some(2)

----------------------------------------------------------------------------
(* TrackLayoutService (track_layout.py).  Distances are in units of 1/Scale
   metre, as the normalized distances are; sample indices are 1-based. *)

COMPLEX_DISTANCE_THRESHOLD == 30
STRAIGHT_MIN_LENGTH == 20
ENTRY_BRAKE_WINDOW == 50
EXIT_THROTTLE_WINDOW == 30

Metres(x) == x * Scale

Abs(x) == IF x >= 0 THEN x ELSE 0 - x
Min(a, b) == IF a <= b THEN a ELSE b
Max(a, b) == IF a >= b THEN a ELSE b

\* _calculate_curvature: the absolute change per sample, 0 for the first
Curvature(values) ==
  [i \in 1..Len(values) |->
     IF i = 1 THEN 0
     ELSE IF values[i] >= values[i - 1] THEN values[i] - values[i - 1]
     ELSE values[i - 1] - values[i]]

\* a mutated threshold test: a curvature of zero counts as a corner
OverThresholdInclusive(curv) == curv >= 0

\* curv > CURVATURE_THRESHOLD; the samples are integers and the threshold 0.003
OverThreshold(curv) == curv > 0

\* brake > BRAKE_THRESHOLD (0.1) and throttle >= THROTTLE_FULL (0.95) on
\* integer samples
BrakeApplied(v) == v > 0
ThrottleFull(v) == v >= 1

\* a mutated corner end: zones of any length are kept
SignificantAny(duration) == TRUE

\* line 183: only corners longer than 10 metres are kept
Significant(duration) == duration > Metres(10)

\* one iteration of the loop of _detect_corner_zones (lines 161-189)
ZoneStep(z, i, curv, nd) ==
  IF OverThreshold(curv) /\ ~z.in_corner
    THEN [z EXCEPT !.in_corner = TRUE, !.start_idx = i,
                   !.start_dist = IF Len(nd) >= i THEN nd[i] ELSE z.start_dist]
  ELSE IF ~OverThreshold(curv) /\ z.in_corner
    THEN LET end_dist == IF Len(nd) >= i THEN nd[i] ELSE z.start_dist
             duration == end_dist - z.start_dist
         IN [z EXCEPT !.in_corner = FALSE,
                      !.zones = IF Significant(duration)
                                  THEN Append(z.zones, [start_idx |-> z.start_idx, end_idx |-> i,
                                                        start_dist |-> z.start_dist,
                                                        end_dist |-> end_dist])
                                  ELSE z.zones]
  ELSE z

RECURSIVE ZoneScan(_, _, _, _)
ZoneScan(z, i, curvature, nd) ==
  IF i > Len(curvature) THEN z
  ELSE ZoneScan(ZoneStep(z, i, curvature[i], nd), i + 1, curvature, nd)

\* lines 191-198: the corner still open when the scan ends, or the IndexError
\* of line 196 when it began after the last distance sample
CloseLastZone(z, nd, last_idx, track_length) ==
  IF ~z.in_corner THEN Ok(z.zones)
  ELSE IF z.start_idx > Len(nd) THEN Internal
  ELSE Ok(Append(z.zones, [start_idx |-> z.start_idx, end_idx |-> last_idx,
                           start_dist |-> nd[z.start_idx], end_dist |-> track_length]))

\* _detect_corner_zones: the zones, or the IndexError
DetectCornerZones(curvature, normalized) ==
  CloseLastZone(ZoneScan([in_corner |-> FALSE, start_idx |-> 1, start_dist |-> 0,
                          zones |-> <<>>],
                         1, curvature, normalized.normalized_distances),
                normalized.normalized_distances, Len(curvature),
                Metres(normalized.track_length))

\* lines 217-226: the first sample of the zone with the largest |steering|
ApexIndex(zone, values) ==
  LET last == Min(zone.end_idx, Len(values))
      range == zone.start_idx..last
  IN IF \A i \in range : Abs(values[i]) = 0 THEN zone.start_idx
     ELSE CHOOSE i \in range :
            /\ \A j \in range : Abs(values[j]) <= Abs(values[i])
            /\ \A j \in range : j < i => Abs(values[j]) < Abs(values[i])

\* lines 229-235: the sample of the braking point, searched backwards from the
\* start of the zone over at most ENTRY_BRAKE_WINDOW samples; 0 when none
EntryIndex(zone, values) ==
  LET search_start == Max(0, (zone.start_idx - 1) - ENTRY_BRAKE_WINDOW)
      hits == {i \in (search_start + 2)..zone.start_idx :
                 i <= Len(values) /\ BrakeApplied(values[i])}
  IN IF hits = {} THEN 0 ELSE CHOOSE i \in hits : \A j \in hits : j <= i

\* lines 238-244: the first sample from the start of the zone with full
\* throttle, up to EXIT_THROTTLE_WINDOW samples after its end; 0 when none
ExitIndex(zone, values) ==
  LET search_end == Min(Len(values), (zone.end_idx - 1) + EXIT_THROTTLE_WINDOW)
      hits == {i \in zone.start_idx..search_end : ThrottleFull(values[i])}
  IN IF hits = {} THEN 0 ELSE CHOOSE i \in hits : \A j \in hits : i <= j

HasValues(signal) == ~IsNone(signal) /\ Val(signal).values # <<>>

\* lines 247-254: the corner of the samples found, or the IndexError of line
\* 234 or 243 when the entry or exit sample has no distance
CornerAt(zone, nd, apex_dist, entry_idx, exit_idx) ==
  IF entry_idx > Len(nd) \/ exit_idx > Len(nd) THEN Internal
  ELSE Ok(Seg("", "corner", zone.start_dist, zone.end_dist,
              IF entry_idx > 0 THEN Some(nd[entry_idx]) ELSE None,
              apex_dist,
              IF exit_idx > 0 THEN Some(nd[exit_idx]) ELSE None))

\* lines 237-238: the exit is searched only when an apex was found
ExitIndexAfter(zone, throttle, apex_dist) ==
  IF HasValues(throttle) /\ ~IsNone(apex_dist) THEN ExitIndex(zone, Val(throttle).values)
  ELSE 0

\* line 227
ApexDist(nd, apex_idx) ==
  IF apex_idx > 0 /\ apex_idx <= Len(nd) THEN Some(nd[apex_idx]) ELSE None

CornerWithApex(zone, nd, apex_dist, brake, throttle) ==
  CornerAt(zone, nd, apex_dist,
           IF HasValues(brake) THEN EntryIndex(zone, Val(brake).values) ELSE 0,
           ExitIndexAfter(zone, throttle, apex_dist))

\* _enhance_corner
EnhanceCorner(zone, normalized, steering, brake, throttle) ==
  CornerWithApex(zone, normalized.normalized_distances,
                 ApexDist(normalized.normalized_distances,
                          IF HasValues(steering) THEN ApexIndex(zone, Val(steering).values)
                          ELSE 0),
                 brake, throttle)

\* a mutated merge test: corners merge whatever their gap
CloseEnoughAlways(gap) == TRUE

\* line 279
CloseEnough(gap) == gap < Metres(COMPLEX_DISTANCE_THRESHOLD)

\* lines 273-277
CornerGap(current, next_corner, track_length) ==
  LET gap == next_corner.start_dist - current.end_dist
  IN IF gap < 0 THEN gap + track_length ELSE gap

\* the while loop of _merge_adjacent_corners from corner i on
RECURSIVE MergeFrom(_, _, _)
MergeFrom(corners, i, track_length) ==
  IF i > Len(corners) THEN <<>>
  ELSE IF i + 1 <= Len(corners)
          /\ CloseEnough(CornerGap(corners[i], corners[i + 1], track_length))
    THEN <<Seg("", "complex", corners[i].start_dist, corners[i + 1].end_dist,
               corners[i].entry_dist, None, corners[i + 1].exit_dist)>>
         \o MergeFrom(corners, i + 2, track_length)
  ELSE <<corners[i]>> \o MergeFrom(corners, i + 1, track_length)

MergeAdjacentCorners(corners, track_length) ==
  IF Len(corners) < 2 THEN corners ELSE MergeFrom(corners, 1, track_length)

\* x placed behind the segments of sorted that do not start after it
InsertByStart(sorted, x) ==
  SelectSeq(sorted, LAMBDA g : g.start_dist <= x.start_dist)
  \o <<x>> \o SelectSeq(sorted, LAMBDA g : g.start_dist > x.start_dist)

\* sorted(key=start_dist): stable, equal keys keep their order
RECURSIVE SortByStart(_)
SortByStart(segs) ==
  IF segs = <<>> THEN <<>>
  ELSE InsertByStart(SortByStart(SubSeq(segs, 1, Len(segs) - 1)), Last(segs))

Straight(start, end) == Seg("", "straight", start, end, None, None, None)

\* a mutated gap test: a gap of exactly STRAIGHT_MIN_LENGTH is filled too
LongEnoughInclusive(gap) == gap >= Metres(STRAIGHT_MIN_LENGTH)

\* lines 326, 348, 371
LongEnough(gap) == gap > Metres(STRAIGHT_MIN_LENGTH)

\* lines 340-359: segment i and the straight to the next one
RECURSIVE FillFrom(_, _)
FillFrom(sorted_segments, i) ==
  IF i > Len(sorted_segments) THEN <<>>
  ELSE LET seg == sorted_segments[i]
           between == IF i + 1 <= Len(sorted_segments)
                         /\ LongEnough(sorted_segments[i + 1].start_dist - seg.end_dist)
                        THEN <<Straight(seg.end_dist, sorted_segments[i + 1].start_dist)>>
                        ELSE <<>>
       IN <<seg>> \o between \o FillFrom(sorted_segments, i + 1)

\* lines 322-383, on the segments sorted by start
FillSorted(sorted_segments, track_length) ==
  (IF LongEnough(sorted_segments[1].start_dist)
     THEN <<Straight(0, sorted_segments[1].start_dist)>> ELSE <<>>)
  \o FillFrom(sorted_segments, 1)
  \o (IF LongEnough((track_length - Last(sorted_segments).end_dist)
                    + sorted_segments[1].start_dist)
        THEN <<Straight(Last(sorted_segments).end_dist, track_length)>> ELSE <<>>)

\* _fill_straights
FillStraights(segments, track_length) ==
  IF segments = <<>>
    THEN <<Seg("S1", "straight", 0, track_length, None, None, None)>>
  ELSE FillSorted(SortByStart(segments), track_length)

TypeLetter(segment_type) ==
  IF segment_type = "corner" THEN "T" ELSE IF segment_type = "straight" THEN "S" ELSE "C"

\* a mutated numbering: one counter for all types
IdNumberShared(segments, i) == i

\* the counter of the type of segment i when the loop reaches it
IdNumber(segments, i) ==
  Cardinality({j \in 1..i : segments[j].segment_type = segments[i].segment_type})

\* _generate_segment_ids
GenerateSegmentIds(segments) ==
  [i \in 1..Len(segments) |->
     [segments[i] EXCEPT !.segment_id =
        TypeLetter(segments[i].segment_type) \o ToString(IdNumber(segments, i))]]

\* the corners of lines 93-98 so far, or the first error
AppendCorner(corner, rest) ==
  IF corner.kind # "ok" THEN corner
  ELSE IF rest.kind # "ok" THEN rest
  ELSE Ok(<<corner.value>> \o rest.value)

RECURSIVE EnhanceAll(_, _, _, _, _)
\* lines 93-98: the corners of the zones, or the first error
EnhanceAll(zones, normalized, steering, brake, throttle) ==
  IF zones = <<>> THEN Ok(<<>>)
  ELSE AppendCorner(EnhanceCorner(zones[1], normalized, steering, brake, throttle),
                    EnhanceAll(Tail(zones), normalized, steering, brake, throttle))

\* lines 93-98 on the zones found
EnhanceZones(corner_zones, normalized, steering_signal, brake_signal, throttle_signal) ==
  IF corner_zones.kind # "ok" THEN corner_zones
  ELSE EnhanceAll(corner_zones.value, normalized, steering_signal, brake_signal,
                  throttle_signal)

\* lines 78-98 on the normalized distances
CornersOn(normalized, steering_signal, brake_signal, throttle_signal) ==
  EnhanceZones(DetectCornerZones(IF ~HasValues(steering_signal)
                                   THEN [i \in 1..Len(normalized.original_distances) |-> 0]
                                   ELSE Curvature(Val(steering_signal).values),
                                 normalized),
               normalized, steering_signal, brake_signal, throttle_signal)

\* lines 72-98 of detect_layout: the enhanced corners, or the IndexError
DetectCorners(steering_signal, brake_signal, throttle_signal, lap_dist_signal) ==
  CornersOn(Normalize(Val(lap_dist_signal).values, 0), steering_signal, brake_signal,
            throttle_signal)

\* line 73, in the unit of the distances
TrackLengthOf(lap_dist_signal) == Metres(Normalize(Val(lap_dist_signal).values, 0).track_length)

\* lines 100-122: the layout of the corners found
LayoutOfCorners(track_name, track_layout, enhanced_corners, track_length, lap_number, session_id) ==
  IF enhanced_corners.kind # "ok" THEN enhanced_corners
  ELSE Ok([track_name |-> track_name, track_layout |-> track_layout,
           version |-> 1, track_length |-> track_length,
           segments |-> GenerateSegmentIds(SortByStart(FillStraights(
                          MergeAdjacentCorners(enhanced_corners.value, track_length),
                          track_length))),
           reference_lap_number |-> lap_number,
           reference_session_id |-> session_id])

\* lines 72-122 on the normalized distances
LayoutOn(track_name, track_layout, normalized, steering_signal, brake_signal, throttle_signal, lap_number, session_id) ==
  LayoutOfCorners(track_name, track_layout,
                  CornersOn(normalized, steering_signal, brake_signal, throttle_signal),
                  Metres(normalized.track_length), lap_number, session_id)

\* detect_layout: the layout, ValueError (not_found) or another exception
DetectLayout(track_name, track_layout, steering_signal, brake_signal, throttle_signal, speed_signal, lap_dist_signal, lap_number, session_id) ==
  IF ~HasValues(lap_dist_signal) THEN NotFound                               \* line 70
  ELSE LayoutOn(track_name, track_layout, Normalize(Val(lap_dist_signal).values, 0),
                steering_signal, brake_signal, throttle_signal, lap_number, session_id)

(* Inputs of the detection specification: Lap Dist recordings in metres,
   steering over two values, pedals and speed absent, empty, shorter or longer
   than the Lap Dist recording. *)

LapDistProfiles ==
  { <<50>>,
    <<0, 20, 40, 50, 70>>,            \* corners can lie 10 m apart
    <<0, 20, 40, 60, 80>>,            \* 20 m apart
    <<0, 20, 40, 70, 90>>,            \* 30 m apart
    <<0, 30, 50, 90, 110>>,           \* 40 m apart
    <<0, 20, 40, 35, 55>>,            \* a dip of 5 m
    <<-1, 25, 45, 70, 95>>,
    <<60, 80, 100, 0, 20>>,           \* a wrap
    <<0, 10, 30, 40, 60, 70, 90>> }   \* room for three corners

SteeringValues == {0, 9}

LapDistInputs ==
  {None, Signal("Lap Dist", <<>>)} \cup {Signal("Lap Dist", p) : p \in LapDistProfiles}

SteeringInputs(n) ==
  {None, Signal("Steering Pos", <<>>)}
  \cup {Signal("Steering Pos", v) :
          v \in UNION {[1..m -> SteeringValues] : m \in {n - 1, n, n + 1} \ {0}}}

BrakeInputs(n) ==
  {None, Signal("Brake Pos", <<>>)}
  \cup {Signal("Brake Pos", v) : v \in {Constant(n - 1, 1), Constant(n, 0) \o <<1>>} \ {<<>>}}

ThrottleInputs(n) ==
  {None, Signal("Throttle Pos", <<>>)}
  \cup {Signal("Throttle Pos", v) :
          v \in {Constant(n - 1, 1), Constant(n + 1, 1), Constant(n, 0) \o <<1>>} \ {<<>>}}

SpeedInputs(n) == {None, Signal("Ground Speed", Constant(n + 1, 1))}

SamplesOf(lap_dist) == IF IsNone(lap_dist) THEN 0 ELSE Len(Val(lap_dist).values)

\* one call of detect_layout; a behaviour is a single call.  The entry keeps
\* the corners before merging and the segments after it beside the result.
DetectLayoutCall ==
  /\ log = <<>>
  /\ \E lap_dist \in LapDistInputs :
       \E steering \in SteeringInputs(SamplesOf(lap_dist)), brake \in BrakeInputs(SamplesOf(lap_dist)),
          throttle \in ThrottleInputs(SamplesOf(lap_dist)), speed \in SpeedInputs(SamplesOf(lap_dist)) :
         LET out == DetectLayout("A", Some("B"), steering, brake, throttle, speed, lap_dist, 1, "sA")
             corners == IF HasValues(lap_dist) THEN DetectCorners(steering, brake, throttle, lap_dist)
                        ELSE NotFound
         IN /\ log' = <<[op |-> "detect_layout", steering |-> steering, brake |-> brake,
                         throttle |-> throttle, speed |-> speed, lap_dist |-> lap_dist,
                         corners |-> corners,
                         merged |-> IF corners.kind = "ok"
                                      THEN MergeAdjacentCorners(corners.value,
                                                                TrackLengthOf(lap_dist))
                                      ELSE <<>>,
                         kind |-> out.kind, result |-> out.value]>>
            /\ UNCHANGED <<norm, tier1, tier2>>

InitDetect == norm = NormIdle /\ tier1 = <<>> /\ tier2 = <<>> /\ log = <<>>

NextDetect == DetectLayoutCall

SpecDetect == InitDetect /\ [][NextDetect]_vars

(* Claims about detect_layout *)

IsDetectCall(e) == e.op = "detect_layout"

Returned(e) == IsDetectCall(e) /\ e.kind = "ok"

SegmentsOfType(segments, type) == SelectSeq(segments, LAMBDA g : g.segment_type = type)

\* C13: with a non-empty Lap Dist and steering absent or empty, whatever the
\* brake, throttle and speed signals, detect_layout returns a layout of
\* exactly one segment: the straight S1 from 0 to the track length.
C13_NoSteeringOneStraight ==
  \A k \in 1..Len(log) :
     (IsDetectCall(log[k]) /\ HasValues(log[k].lap_dist) /\ ~HasValues(log[k].steering)) =>
        /\ log[k].kind = "ok"
        /\ Len(log[k].result.segments) = 1
        /\ log[k].result.segments[1].segment_type = "straight"
        /\ log[k].result.segments[1].segment_id = "S1"
        /\ log[k].result.segments[1].start_dist = 0
        /\ log[k].result.segments[1].end_dist = log[k].result.track_length

\* a call without steering values, with brake and throttle recorded, on a
\* track of positive length
C13_Witness ==
  /\ Len(log) = 1 /\ Returned(log[1])
  /\ IsNone(log[1].steering)
  /\ HasValues(log[1].brake) /\ HasValues(log[1].throttle)
  /\ log[1].result.track_length > 0

\* the gap between a corner and its successor as the claim defines it
ClaimedGap(current, next_corner, track_length) ==
  IF next_corner.start_dist - current.end_dist < 0
    THEN next_corner.start_dist - current.end_dist + track_length
    ELSE next_corner.start_dist - current.end_dist

\* MergesWithNext(c, tl)[i]: corner i is not absorbed by corner i - 1 and its
\* gap to corner i + 1 is below 30 m
MergesWithNext(c, track_length) ==
  LET M[i \in 0..Len(c)] ==
        IF i = 0 THEN FALSE
        ELSE /\ i < Len(c)
             /\ ~M[i - 1]
             /\ ClaimedGap(c[i], c[i + 1], track_length) < 30 * Scale
  IN M

WithoutId(segment) == [segment EXCEPT !.segment_id = ""]

HasStraight(segments, start, end) ==
  \E j \in 1..Len(segments) :
     /\ segments[j].segment_type = "straight"
     /\ segments[j].start_dist = start
     /\ segments[j].end_dist = end

NotStraight(segments) == SelectSeq(segments, LAMBDA g : g.segment_type # "straight")

\* C15: in a layout with a corner or complex, every gap of 20 m or more is
\* covered by a straight: from 0 to the first corner or complex, between two
\* consecutive ones, and from the last one to the end of the track when that
\* gap, with the wrap back to the first one, is 20 m or more.
C15_GapsFilled ==
  \A k \in 1..Len(log) :
     (Returned(log[k]) /\ NotStraight(log[k].result.segments) # <<>>) =>
       LET segments == log[k].result.segments
           track_length == log[k].result.track_length
           turns == NotStraight(segments)
       IN /\ turns[1].start_dist >= 20 * Scale => HasStraight(segments, 0, turns[1].start_dist)
          /\ \A i \in 1..(Len(turns) - 1) :
                turns[i + 1].start_dist - turns[i].end_dist >= 20 * Scale =>
                   HasStraight(segments, turns[i].end_dist, turns[i + 1].start_dist)
          /\ (track_length - Last(turns).end_dist) + turns[1].start_dist >= 20 * Scale =>
                HasStraight(segments, Last(turns).end_dist, track_length)

ClaimedLetter == [corner |-> "T", straight |-> "S", complex |-> "C"]

\* C16: the segments of a returned layout are in non-decreasing start_dist
\* order; the corners are T1, T2, ..., the straights S1, S2, ... and the
\* complexes C1, C2, ... in that order, so no id occurs twice.
C16_OrderedAndNumbered ==
  \A k \in 1..Len(log) :
     Returned(log[k]) =>
       LET segments == log[k].result.segments
       IN /\ \A i \in 1..(Len(segments) - 1) :
                segments[i].start_dist <= segments[i + 1].start_dist
          /\ \A i \in 1..Len(segments) : segments[i].segment_type \in DOMAIN ClaimedLetter
          /\ \A type \in DOMAIN ClaimedLetter :
                \A n \in 1..Len(SegmentsOfType(segments, type)) :
                   SegmentsOfType(segments, type)[n].segment_id
                     = ClaimedLetter[type] \o ToString(n)
          /\ \A i, j \in 1..Len(segments) :
                i # j => segments[i].segment_id # segments[j].segment_id

\* a layout with two corners and straights between and around them
C16_Witness ==
  /\ Len(log) = 1 /\ Returned(log[1])
  /\ Len(SegmentsOfType(log[1].result.segments, "corner")) >= 2
  /\ Len(SegmentsOfType(log[1].result.segments, "straight")) >= 2
  /\ log[1].result.segments[1].segment_type = "straight"
  /\ log[1].result.segments[2].segment_type = "corner"

\* C19: detect_layout fails with the input error exactly when Lap Dist is
\* missing or empty; with a non-empty Lap Dist it returns a layout whatever
\* steering, brake, throttle and speed are (absent, empty, shorter or longer),
\* and raises no other error.
C19_FailsOnlyWithoutLapDist ==
  \A k \in 1..Len(log) :
     IsDetectCall(log[k]) =>
        /\ log[k].kind = "not_found" <=> ~HasValues(log[k].lap_dist)
        /\ HasValues(log[k].lap_dist) => log[k].kind = "ok"

\* the corner zones (lines 78-90) of a call whose corners were enhanced; they
\* correspond one to one to the corners before merging
ZonesOf(e) ==
  DetectCornerZones(Curvature(Val(e.steering).values),
                    Normalize(Val(e.lap_dist).values, 0)).value

\* C25 (as claimed): for every corner that corner enhancement gives an
\* exit_dist, the sample chosen for the exit is not before the sample chosen
\* for the apex.
C25_ExitNotBeforeApex ==
  \A k \in 1..Len(log) :
     (IsDetectCall(log[k]) /\ log[k].corners.kind = "ok") =>
        \A j \in 1..Len(log[k].corners.value) :
           ~IsNone(log[k].corners.value[j].exit_dist) =>
              ExitIndex(ZonesOf(log[k])[j], Val(log[k].throttle).values)
                >= ApexIndex(ZonesOf(log[k])[j], Val(log[k].steering).values)

\* what holds of the code: the exit is the first full-throttle sample from
\* the start of the zone on, whether before or after the apex
C25_ExitFromZoneStart ==
  \A k \in 1..Len(log) :
     (IsDetectCall(log[k]) /\ log[k].corners.kind = "ok") =>
        \A j \in 1..Len(log[k].corners.value) :
           ~IsNone(log[k].corners.value[j].exit_dist) =>
              LET zone == ZonesOf(log[k])[j]
                  values == Val(log[k].throttle).values
                  exit_idx == ExitIndex(zone, values)
              IN /\ exit_idx >= zone.start_idx
                 /\ ThrottleFull(values[exit_idx])
                 /\ \A i \in zone.start_idx..(exit_idx - 1) : ~ThrottleFull(values[i])
                 /\ Val(log[k].corners.value[j].exit_dist)
                      = Normalize(Val(log[k].lap_dist).values, 0).normalized_distances[exit_idx]

----------------------------------------------------------------------------
(* SegmentService (segments.py) *)

LayoutChannels == <<"Steering Pos", "Brake Pos", "Throttle Pos", "Ground Speed", "Lap Dist">>

\* lines 109-133: the first slice of a one-channel request, None on any exception
FirstSignalOrNone(session_id, lap_number, channel) ==
  LET data == GetLapSignals(session_id, lap_number, <<channel>>)
  IN IF data.kind = "ok" /\ data.value # <<>> THEN Some(data.value[1]) ELSE None

LayoutOutcome(kind, layout, dir, selected, detected) ==
  [kind |-> kind, layout |-> layout, tier1 |-> dir, selected |-> selected,
   detected |-> detected]

\* lines 100-177: selection, detection and save_layout, which either completes
\* or raises at one of its statements
DetectAndSave(dir, session_id, track_name, track_layout, preferred_lap) ==
  LET laps == GetLaps(session_id)
  IN IF laps = <<>> THEN {LayoutOutcome("not_found", None, dir, FALSE, FALSE)}    \* line 103
     ELSE
     LET steering_signal == FirstSignalOrNone(session_id, laps[1].lap_number, "Steering Pos")
         brake_signal == FirstSignalOrNone(session_id, laps[1].lap_number, "Brake Pos")
         ref_lap_number == SelectReferenceLap(laps, steering_signal, brake_signal, preferred_lap)
     IN IF IsNone(ref_lap_number)
          THEN {LayoutOutcome("not_found", None, dir, TRUE, FALSE)}                \* line 144
        ELSE
        LET signals == GetLapSignals(session_id, Val(ref_lap_number), LayoutChannels)
        IN IF signals.kind # "ok"
             THEN {LayoutOutcome(signals.kind, None, dir, TRUE, FALSE)}
           ELSE
           LET signal_map == SignalMap(signals.value)
               detected == DetectLayout(track_name, track_layout,
                                        MapGet(signal_map, "Steering Pos"),
                                        MapGet(signal_map, "Brake Pos"),
                                        MapGet(signal_map, "Throttle Pos"),
                                        MapGet(signal_map, "Ground Speed"),
                                        MapGet(signal_map, "Lap Dist"),
                                        Val(ref_lap_number), session_id)
           IN IF detected.kind # "ok"
                THEN {LayoutOutcome(detected.kind, None, dir, TRUE, TRUE)}
              ELSE LET layout == detected.value
                       n == SaveLayoutStatements(layout)
                   IN {LayoutOutcome("ok", Some(layout), SaveLayoutDir(dir, layout, n),
                                     TRUE, TRUE)}
                      \cup {LayoutOutcome("internal", None, SaveLayoutDir(dir, layout, k),
                                          TRUE, TRUE) : k \in 0..(n - 1)}

\* line 87: session.track_name or "Unknown"
TrackNameOf(session) ==
  IF IsNone(session.track_name) \/ Val(session.track_name) = <<>>
    THEN NameUnknown ELSE Val(session.track_name)

\* a mutated cache check: the cache is never consulted
UseCacheNever(force_regenerate) == FALSE

\* a mutated cache check: force_regenerate is not looked at
UseCacheAlways(force_regenerate) == TRUE

\* line 91
UseCache(force_regenerate) == ~force_regenerate

\* get_or_create_layout: the outcomes the call may have
GetOrCreateLayout(dir, session_id, preferred_lap, force_regenerate) ==
  LET session == GetSession(session_id)
  IN IF IsNone(session) THEN {LayoutOutcome("not_found", None, dir, FALSE, FALSE)}  \* line 85
     ELSE
     LET track_name == TrackNameOf(Val(session))
         track_layout == Val(session).track_layout
         cached == IF UseCache(force_regenerate)
                     THEN GetLayout(dir, track_name, track_layout, 1) ELSE {None}
     IN UNION {IF ~IsNone(cached_layout)
                 THEN {LayoutOutcome("ok", cached_layout, dir, FALSE, FALSE)}       \* line 95
                 ELSE DetectAndSave(dir, session_id, track_name, track_layout, preferred_lap) :
               cached_layout \in cached}

----------------------------------------------------------------------------
(* MetricsCalculator.calculate_lap_metrics (metrics.py lines 31-86, 171-186,
   218-240, 304-319); times in samples, that is in 1/60 s *)

\* _find_index_for_distance (1-based): the first sample closest to the target
FindIndexForDistance(normalized, target_dist) ==
  LET d == normalized.normalized_distances
  IN CHOOSE i \in 1..Len(d) :
       /\ \A j \in 1..Len(d) : AbsDiff(d[i], target_dist) <= AbsDiff(d[j], target_dist)
       /\ \A j \in 1..(i - 1) : AbsDiff(d[j], target_dist) > AbsDiff(d[i], target_dist)

\* lines 99-104: the samples from start_idx up to end_idx, past the last
\* sample and on from the first when the end is not after the start
SegmentSpan(start_idx, end_idx, n) ==
  IF start_idx >= end_idx
    THEN [i \in 1..(n - start_idx + 1) |-> start_idx + i - 1]
         \o [i \in 1..(end_idx - 1) |-> i]
  ELSE [i \in 1..(end_idx - start_idx) |-> start_idx + i - 1]

\* lines 96-104: the samples (1-based) the segment covers
SegmentIndices(normalized, segment) ==
  SegmentSpan(FindIndexForDistance(normalized, segment.start_dist),
              FindIndexForDistance(normalized, segment.end_dist),
              Len(normalized.normalized_distances))

\* _extract_values: the values at the indices the signal has
ExtractValues(signal, indices) ==
  IF IsNone(signal) \/ Val(signal).values = <<>> THEN <<>>
  ELSE LET inside == SelectSeq(indices, LAMBDA idx : idx <= Len(Val(signal).values))
       IN [i \in 1..Len(inside) |-> Val(signal).values[inside[i]]]

\* the distances doubled, to look up the mid point (start + end) / 2 exactly
Doubled(normalized) ==
  [normalized EXCEPT !.normalized_distances =
     [i \in 1..Len(normalized.normalized_distances) |-> 2 * normalized.normalized_distances[i]]]

\* lines 213-216: the speed at the sample, when the signal has it
SpeedAtIndex(values, idx) == IF idx <= Len(values) THEN Some(values[idx]) ELSE None

\* _get_speed_at_distance, for a target given as twice its value
SpeedAtDoubledDistance(speed_signal, normalized, doubled_target) ==
  IF IsNone(speed_signal) \/ Val(speed_signal).values = <<>> THEN None
  ELSE SpeedAtIndex(Val(speed_signal).values,
                    FindIndexForDistance(Doubled(normalized), doubled_target))

MinOf(values) == CHOOSE v \in {values[i] : i \in 1..Len(values)} :
                   \A i \in 1..Len(values) : v <= values[i]
MaxOf(values) == CHOOSE v \in {values[i] : i \in 1..Len(values)} :
                   \A i \in 1..Len(values) : v >= values[i]

\* a mutated maximum: no value is reported as a pressure of 0
MaxBrakeOrZero(brake_values) == IF brake_values = <<>> THEN Some(0) ELSE Some(MaxOf(brake_values))

\* line 147
MaxBrake(brake_values) == IF brake_values = <<>> THEN None ELSE Some(MaxOf(brake_values))

\* _calculate_braking_distance: from the first braking sample to the entry
BrakingDistance(brake_values, normalized, indices, entry_dist) ==
  LET hits == {i \in 1..Len(brake_values) :
                 brake_values[i] > 0 /\ indices[i] <= Len(normalized.normalized_distances)}
  IN IF brake_values = <<>> \/ indices = <<>> \/ hits = {} THEN None
     ELSE Some(entry_dist
               - normalized.normalized_distances[indices[CHOOSE i \in hits :
                                                           \A j \in hits : i <= j]])

\* _calculate_throttle_application: from the exit to the first full throttle
ThrottleApplication(throttle_values, normalized, indices, exit_dist) ==
  LET hits == {i \in 1..Len(throttle_values) :
                 throttle_values[i] >= 1 /\ indices[i] <= Len(normalized.normalized_distances)}
  IN IF throttle_values = <<>> \/ indices = <<>> \/ hits = {} THEN None
     ELSE Some(normalized.normalized_distances[indices[CHOOSE i \in hits :
                                                         \A j \in hits : i <= j]]
               - exit_dist)

\* _calculate_steering_smoothness: the standard deviation of the steering
\* rate, kept as its square times the square of the number of rates
SteeringSmoothness(steering_values) ==
  IF Len(steering_values) < 2 THEN None
  ELSE LET rates == [i \in 1..(Len(steering_values) - 1) |->
                       AbsDiff(steering_values[i + 1], steering_values[i])]
           squares == [i \in 1..Len(rates) |-> rates[i] * rates[i]]
       IN Some(Len(rates) * SumOf(squares) - SumOf(rates) * SumOf(rates))

\* a mutated segment time: a single sample counts as well
SegmentTimeCounted(normalized, indices) == Len(indices)

\* _calculate_segment_time: the number of samples, or 0 for fewer than two
SegmentTime(normalized, indices) ==
  IF Len(indices) < 2 THEN 0
  ELSE IF indices[1] <= Len(normalized.normalized_distances)
          /\ Last(indices) <= Len(normalized.normalized_distances)
    THEN Len(indices)
  ELSE 0

\* lines 117-169: the metrics of the samples of the segment
MetricsOfSamples(segment, normalized, speed_signal, indices, speed_values, brake_values, throttle_values, steering_values) ==
  [segment_id |-> segment.segment_id, lap_number |-> 0, session_id |-> "",
   entry_speed |-> SpeedAtDoubledDistance(speed_signal, normalized, 2 * segment.start_dist),
   mid_speed |-> SpeedAtDoubledDistance(speed_signal, normalized,
                                        segment.start_dist + segment.end_dist),
   exit_speed |-> SpeedAtDoubledDistance(speed_signal, normalized, 2 * segment.end_dist),
   min_speed |-> IF speed_values = <<>> THEN None ELSE Some(MinOf(speed_values)),
   max_speed |-> IF speed_values = <<>> THEN None ELSE Some(MaxOf(speed_values)),
   segment_time |-> SegmentTime(normalized, indices),
   time_delta_to_reference |-> None,
   braking_distance |-> BrakingDistance(brake_values, normalized, indices,
                                        segment.start_dist),
   max_brake_pressure |-> MaxBrake(brake_values),
   throttle_application |-> ThrottleApplication(throttle_values, normalized, indices,
                                                segment.end_dist),
   steering_smoothness |-> SteeringSmoothness(steering_values),
   avg_speed |-> IF speed_values = <<>> THEN None
                 ELSE Some(SumOf(speed_values) \div Len(speed_values))]

\* lines 106-115: the values of each channel at the samples of the segment
MetricsAtIndices(segment, normalized, signals, indices) ==
  IF indices = <<>> THEN SegMetrics(segment.segment_id, 0, "", 0, None, None)
  ELSE MetricsOfSamples(segment, normalized, MapGet(signals, "Speed"), indices,
                        ExtractValues(MapGet(signals, "Speed"), indices),
                        ExtractValues(MapGet(signals, "Brake"), indices),
                        ExtractValues(MapGet(signals, "Throttle"), indices),
                        ExtractValues(MapGet(signals, "Steering"), indices))

\* _calculate_segment_metrics; the average speed is kept as its whole part
CalculateSegmentMetrics(segment, normalized, signals) ==
  MetricsAtIndices(segment, normalized, signals, SegmentIndices(normalized, segment))

\* _calculate_time_deltas
CalculateTimeDeltas(segment_metrics, reference_metrics) ==
  [i \in 1..Len(segment_metrics) |->
     LET refs == SelectSeq(reference_metrics.segments,
                           LAMBDA r : r.segment_id = segment_metrics[i].segment_id)
     IN IF refs # <<>> /\ Last(refs).segment_time > 0
          THEN [segment_metrics[i] EXCEPT !.time_delta_to_reference =
                  Some(segment_metrics[i].segment_time - Last(refs).segment_time)]
          ELSE segment_metrics[i]]

RECURSIVE SumTimes(_)
SumTimes(segs) == IF segs = <<>> THEN 0 ELSE segs[1].segment_time + SumTimes(Tail(segs))

\* line 54: signals.get("LapDist")
LapDistSignal(signals) == MapGet(signals, "LapDist")

\* lines 59-65: the metrics of every segment of the layout
SegmentMetricsOn(layout, normalized, signals) ==
  [i \in 1..Len(layout.segments) |->
     CalculateSegmentMetrics(layout.segments[i], normalized, signals)]

\* lines 67-86: the deltas to the reference, the total time and the result
LapMetricsOf(session_id, lap_number, layout, lap_time, reference_metrics, plain) ==
  Ok([session_id |-> session_id, lap_number |-> lap_number,
      layout_version |-> layout.version, track_length |-> layout.track_length,
      total_time |-> IF ~IsNone(lap_time) /\ Val(lap_time) # 0
                       THEN lap_time ELSE Some(SumTimes(plain)),
      segments |-> IF ~IsNone(reference_metrics)
                     THEN CalculateTimeDeltas(plain, Val(reference_metrics))
                     ELSE plain])

\* calculate_lap_metrics: the metrics, ValueError (not_found) or another exception
CalculateLapMetrics(session_id, lap_number, layout, signals, lap_time, reference_metrics) ==
  IF IsNone(LapDistSignal(signals)) THEN NotFound                         \* line 56
  ELSE IF Val(LapDistSignal(signals)).values = <<>> /\ layout.segments # <<>>
    THEN Internal                                                         \* line 178
  ELSE LapMetricsOf(session_id, lap_number, layout, lap_time, reference_metrics,
                    SegmentMetricsOn(layout, Normalize(Val(LapDistSignal(signals)).values, 0),
                                     signals))

(* Inputs of the metrics specification *)

CalcLayouts ==
  {[track_name |-> "A", track_layout |-> Some("B"), version |-> 1,
    track_length |-> Metres(100), segments |-> segs,
    reference_lap_number |-> 1, reference_session_id |-> "sA"] :
     segs \in {<<>>,
               <<Seg("S1", "straight", Metres(0), Metres(40), None, None, None),
                 Seg("T1", "corner", Metres(40), Metres(100), None, Some(Metres(60)), None)>>,
               <<Seg("T1", "corner", Metres(60), Metres(20), None, None, None)>>,
               <<Seg("S1", "straight", Metres(0), Metres(40), None, None, None),
                 Seg("T1", "corner", Metres(40), Metres(60), None, None, None),
                 Seg("S2", "straight", Metres(60), Metres(100), None, None, None)>>}}

\* for each channel the recordings tried
CalcValues ==
  [LapDist |-> {<<>>, <<50>>, <<0, 20, 40, 60, 100>>},
   Speed |-> {<<30, 60, 40, 50, 20>>, <<30, 60>>},
   Brake |-> {<<0, 1, 0, 0, 1>>, <<0, 0, 0, 0, 0>>},
   Throttle |-> {<<1, 0, 0, 1, 1>>, <<>>},
   Steering |-> {<<0, 9, 0, 9, 0>>, <<5>>}]

\* a channel is absent or holds one of its recordings
CalcChoices(channel) == {None} \cup {Signal(channel, v) : v \in CalcValues[channel]}

\* the signal dict of the channels chosen
CalcSignalMap(choice) ==
  [c \in {k \in DOMAIN choice : ~IsNone(choice[k])} |-> Val(choice[c])]

CalcLapTimes == {None, Some(100)}

\* one call of calculate_lap_metrics; a behaviour is a single call
CalculateLapMetricsCall ==
  /\ log = <<>>
  /\ \E layout \in CalcLayouts, lap_time \in CalcLapTimes :
       \E lap_dist \in CalcChoices("LapDist"), speed \in CalcChoices("Speed"),
          brake \in CalcChoices("Brake"), throttle \in CalcChoices("Throttle"),
          steering \in CalcChoices("Steering") :
          LET signals == CalcSignalMap([LapDist |-> lap_dist, Speed |-> speed, Brake |-> brake,
                                        Throttle |-> throttle, Steering |-> steering])
              out == CalculateLapMetrics("sA", 2, layout, signals, lap_time, None)
          IN /\ log' = <<[op |-> "calculate_lap_metrics", layout |-> layout,
                          signals |-> signals, lap_time |-> lap_time,
                          kind |-> out.kind, result |-> out.value]>>
             /\ UNCHANGED <<norm, tier1, tier2>>

InitCalc == norm = NormIdle /\ tier1 = <<>> /\ tier2 = <<>> /\ log = <<>>

NextCalc == CalculateLapMetricsCall

SpecCalc == InitCalc /\ [][NextCalc]_vars

(* Claims about calculate_lap_metrics *)

IsCalcCall(e) == e.op = "calculate_lap_metrics"

Absent(e, channel) == channel \notin DOMAIN e.signals

HasSamples(e, channel) == ~Absent(e, channel) /\ e.signals[channel].values # <<>>

\* C20: calculate_lap_metrics raises the input error when LapDist is not in
\* signals.  When LapDist is there with samples the call returns, whichever of
\* Speed, Brake, Throttle and Steering are absent, and the metrics derived
\* from an absent channel are None in every segment.
C20_AbsentChannelsDegrade ==
  \A k \in 1..Len(log) :
     IsCalcCall(log[k]) =>
        /\ Absent(log[k], "LapDist") => log[k].kind = "not_found"
        /\ HasSamples(log[k], "LapDist") =>
             /\ log[k].kind = "ok"
             /\ \A i \in 1..Len(log[k].result.segments) :
                  LET m == log[k].result.segments[i]
                  IN /\ Absent(log[k], "Speed") =>
                          /\ IsNone(m.entry_speed) /\ IsNone(m.mid_speed)
                          /\ IsNone(m.exit_speed) /\ IsNone(m.min_speed)
                          /\ IsNone(m.max_speed) /\ IsNone(m.avg_speed)
                     /\ Absent(log[k], "Brake") =>
                          IsNone(m.braking_distance) /\ IsNone(m.max_brake_pressure)
                     /\ Absent(log[k], "Throttle") => IsNone(m.throttle_application)
                     /\ Absent(log[k], "Steering") => IsNone(m.steering_smoothness)

\* Speed and Brake are absent, Throttle and Steering are recorded and give a
\* throttle application and a steering smoothness for the first segment
C20_Witness ==
  /\ Len(log) = 1 /\ IsCalcCall(log[1]) /\ log[1].kind = "ok"
  /\ HasSamples(log[1], "LapDist")
  /\ Absent(log[1], "Speed") /\ Absent(log[1], "Brake")
  /\ ~Absent(log[1], "Throttle") /\ ~Absent(log[1], "Steering")
  /\ Len(log[1].result.segments) = 2
  /\ ~IsNone(log[1].result.segments[1].throttle_application)
  /\ ~IsNone(log[1].result.segments[1].steering_smoothness)
  /\ IsNone(log[1].result.segments[1].max_brake_pressure)

\* the samples (lines 95-104) of segment i of the layout of a call that returned
IndicesOf(e, i) ==
  SegmentIndices(Normalize(e.signals["LapDist"].values, 0), e.layout.segments[i])

\* C22 (as claimed): every segment with at least one sample, a single one
\* included, has a segment_time of its number of samples (in 1/60 s).
C22_AsClaimed ==
  \A k \in 1..Len(log) :
     (IsCalcCall(log[k]) /\ log[k].kind = "ok") =>
        \A i \in 1..Len(log[k].result.segments) :
           Len(IndicesOf(log[k], i)) >= 1 =>
              log[k].result.segments[i].segment_time = Len(IndicesOf(log[k], i))

\* C22 (amended): a segment with two or more samples has a segment_time of its
\* number of samples (in 1/60 s), a segment with a single sample has a
\* segment_time of 0.
C22_SegmentTime ==
  \A k \in 1..Len(log) :
     (IsCalcCall(log[k]) /\ log[k].kind = "ok") =>
        \A i \in 1..Len(log[k].result.segments) :
           /\ Len(IndicesOf(log[k], i)) >= 2 =>
                log[k].result.segments[i].segment_time = Len(IndicesOf(log[k], i))
           /\ Len(IndicesOf(log[k], i)) = 1 =>
                log[k].result.segments[i].segment_time = 0

\* a lap of five samples: the first segment holds two of them, the second
\* and the third one each
C22_Witness ==
  /\ Len(log) = 1 /\ IsCalcCall(log[1]) /\ log[1].kind = "ok"
  /\ Len(log[1].result.segments) = 3
  /\ Len(IndicesOf(log[1], 1)) = 2 /\ log[1].result.segments[1].segment_time = 2
  /\ Len(IndicesOf(log[1], 2)) = 1 /\ log[1].result.segments[2].segment_time = 0

\* the row of a segment without samples (lines 106-123)
Degenerate(m) ==
  /\ m.segment_time = 0
  /\ IsNone(m.entry_speed) /\ IsNone(m.mid_speed) /\ IsNone(m.exit_speed)
  /\ IsNone(m.min_speed) /\ IsNone(m.max_speed) /\ IsNone(m.avg_speed)
  /\ IsNone(m.time_delta_to_reference) /\ IsNone(m.braking_distance)
  /\ IsNone(m.max_brake_pressure) /\ IsNone(m.throttle_application)
  /\ IsNone(m.steering_smoothness)

\* C24 (as claimed): with LapDist in signals, also when it has no samples,
\* calculate_lap_metrics raises no error, and a segment whose set of sample
\* indices is empty gets a row with segment_time 0 and every optional metric
\* None.
C24_EmptyIndexSetDegrades ==
  \A k \in 1..Len(log) :
     (IsCalcCall(log[k]) /\ ~Absent(log[k], "LapDist")) =>
        /\ log[k].kind = "ok"
        /\ \A i \in 1..Len(log[k].result.segments) :
              (IF HasSamples(log[k], "LapDist") THEN IndicesOf(log[k], i) = <<>> ELSE TRUE) =>
                 Degenerate(log[k].result.segments[i])

\* what holds of the code: with samples in LapDist every segment has at
\* least one sample index, so no degenerate row is ever produced for want of
\* indices; without samples the call returns only for a layout without segments
C24_IndexSetNeverEmpty ==
  \A k \in 1..Len(log) :
     (IsCalcCall(log[k]) /\ ~Absent(log[k], "LapDist")) =>
        IF HasSamples(log[k], "LapDist")
          THEN /\ log[k].kind = "ok"
               /\ \A i \in 1..Len(log[k].result.segments) : IndicesOf(log[k], i) # <<>>
          ELSE IF log[k].layout.segments = <<>>
                 THEN log[k].kind = "ok" /\ log[k].result.segments = <<>>
                 ELSE log[k].kind = "internal"

----------------------------------------------------------------------------
(* SegmentService.get_lap_metrics and compare_laps (segments.py lines 179-342) *)

\* an outcome of get_lap_metrics: what it returns or raises, the cache tiers
\* it leaves, the layout it used, the get_lap_metrics calls it made itself
\* (line 230) and the depth of the calls below it
MetricsOutcome(kind, value, d1, d2, layout) ==
  [kind |-> kind, value |-> value, tier1 |-> d1, tier2 |-> d2, layout |-> layout,
   nested |-> <<>>, depth |-> 1, from_cache |-> FALSE]

\* the outcomes of a call that made the nested call ref before them
AfterNested(outcomes, ref) ==
  {[o EXCEPT !.nested = ref.nested, !.depth = ref.depth] : o \in outcomes}

\* lines 247-250: save_lap_metrics completes or raises at one of its statements
SaveAndReturn(metrics, d1, d2, layout) ==
  LET n == SaveMetricsStatements(metrics)
  IN {MetricsOutcome("ok", Some(metrics), d1, SaveLapMetricsDir(d2, metrics, n), Some(layout))}
     \cup {MetricsOutcome("internal", None, d1, SaveLapMetricsDir(d2, metrics, k), Some(layout)) :
             k \in 0..(n - 1)}

RECURSIVE GetLapMetrics(_, _, _, _, _)
\* lines 207-250, after the cache was missed or skipped
ComputeLapMetrics(d1, d2, session_id, lap_number, layout) ==
  LET signals == GetLapSignals(session_id, lap_number, LayoutChannels)
  IN IF signals.kind # "ok"
       THEN {MetricsOutcome(signals.kind, None, d1, d2, Some(layout))}        \* line 212
     ELSE
     LET signal_map == SignalMap(signals.value)
         lap == FindLap(GetLaps(session_id), lap_number)
         \* lines 228-235: any exception of the nested call is swallowed
         refs == IF lap_number # layout.reference_lap_number
                   THEN {[value |-> IF r.kind = "ok" THEN r.value ELSE None,
                          tier1 |-> r.tier1, tier2 |-> r.tier2,
                          nested |-> <<[session_id |-> session_id,
                                        lap_number |-> layout.reference_lap_number,
                                        kind |-> r.kind]>>,
                          depth |-> 1 + r.depth] :
                           r \in GetLapMetrics(d1, d2, session_id,
                                               layout.reference_lap_number, FALSE)}
                   ELSE {[value |-> None, tier1 |-> d1, tier2 |-> d2,
                          nested |-> <<>>, depth |-> 1]}
     IN UNION {LET metrics == CalculateLapMetrics(session_id, lap_number, layout, signal_map,
                                                  lap.lap_time, ref.value)
               IN AfterNested(
                    IF metrics.kind # "ok"
                      THEN {MetricsOutcome(metrics.kind, None, ref.tier1, ref.tier2, Some(layout))}
                      ELSE SaveAndReturn(metrics.value, ref.tier1, ref.tier2, layout), ref) :
               ref \in refs}

\* get_lap_metrics of the service: the outcomes the call may have
GetLapMetrics(d1, d2, session_id, lap_number, force_recompute) ==
  UNION {IF lo.kind # "ok"
           THEN {MetricsOutcome(lo.kind, None, lo.tier1, d2, None)}           \* line 196
           ELSE LET layout == Val(lo.layout)
                    reads == IF ~force_recompute
                               THEN GetLapMetricsCache(d2, session_id, lap_number, layout.version)
                               ELSE {[result |-> None, dir |-> d2]}
                IN UNION {IF ~IsNone(read.result)
                            THEN {[MetricsOutcome("ok", read.result, lo.tier1, read.dir,
                                                  Some(layout))
                                     EXCEPT !.from_cache = TRUE]}             \* line 205
                            ELSE ComputeLapMetrics(lo.tier1, read.dir, session_id,
                                                   lap_number, layout) :
                          read \in reads} :
         lo \in GetOrCreateLayout(d1, session_id, None, FALSE)}

CompareOutcome(kind, value, d1, d2) ==
  [kind |-> kind, value |-> value, tier1 |-> d1, tier2 |-> d2]

\* lines 273-275: dict lookup by segment_id, where the last row of an id wins
LookupSegment(metrics, seg_id) ==
  IF \E k \in 1..Len(metrics.segments) : metrics.segments[k].segment_id = seg_id
    THEN Some(Last(SelectSeq(metrics.segments, LAMBDA m : m.segment_id = seg_id)))
  ELSE None

\* lines 290-322: one SegmentComparison (the texts of key_differences are left out)
SegmentComparison(seg_id, target_lap, reference_lap, target_seg, ref_seg) ==
  [segment_id |-> seg_id, target_lap |-> target_lap, reference_lap |-> reference_lap,
   target_time |-> target_seg.segment_time, reference_time |-> ref_seg.segment_time,
   time_delta |-> target_seg.segment_time - ref_seg.segment_time,
   target_min_speed |-> target_seg.min_speed, reference_min_speed |-> ref_seg.min_speed,
   min_speed_delta |-> IF ~IsNone(target_seg.min_speed) /\ ~IsNone(ref_seg.min_speed)
                         THEN Some(Val(target_seg.min_speed) - Val(ref_seg.min_speed))
                         ELSE None]

RECURSIVE Comparisons(_, _, _, _, _)
\* lines 283-322: the comparisons of the requested ids both laps have, in
\* the order requested
Comparisons(segment_ids, target_lap, reference_lap, target_metrics, reference_metrics) ==
  IF segment_ids = <<>> THEN <<>>
  ELSE (IF IsNone(LookupSegment(target_metrics, segment_ids[1]))
           \/ IsNone(LookupSegment(reference_metrics, segment_ids[1])) THEN <<>>   \* line 287
        ELSE <<SegmentComparison(segment_ids[1], target_lap, reference_lap,
                                 Val(LookupSegment(target_metrics, segment_ids[1])),
                                 Val(LookupSegment(reference_metrics, segment_ids[1])))>>)
       \o Comparisons(Tail(segment_ids), target_lap, reference_lap, target_metrics,
                      reference_metrics)

\* x placed behind the rows of sorted whose delta is not smaller
InsertByDelta(sorted, x) ==
  SelectSeq(sorted, LAMBDA g : g.time_delta >= x.time_delta)
  \o <<x>> \o SelectSeq(sorted, LAMBDA g : g.time_delta < x.time_delta)

RECURSIVE SortByDeltaDescending(_)
\* line 326: sort(key=delta, reverse=True), stable
SortByDeltaDescending(rows) ==
  IF rows = <<>> THEN <<>>
  ELSE InsertByDelta(SortByDeltaDescending(SubSeq(rows, 1, Len(rows) - 1)), Last(rows))

\* a mutated filter: a segment without a delta counts as a loss
IsLossOrEqual(delta) == delta >= 0

\* line 327
IsLoss(delta) == delta > 0

\* line 328
IsGain(delta) == delta < 0

IdsOf(rows) == [i \in 1..Len(rows) |-> rows[i].segment_id]

\* line 327: time_deltas[:3] with delta > 0
LargestLosses(time_deltas) ==
  IdsOf(SelectSeq(SubSeq(time_deltas, 1, Min(3, Len(time_deltas))),
                  LAMBDA r : IsLoss(r.time_delta)))

\* line 328: time_deltas[-3:] with delta < 0
LargestGains(time_deltas) ==
  IdsOf(SelectSeq(SubSeq(time_deltas, Max(1, Len(time_deltas) - 2), Len(time_deltas)),
                  LAMBDA r : IsGain(r.time_delta)))

RECURSIVE SumDeltas(_)
\* line 331
SumDeltas(rows) == IF rows = <<>> THEN 0 ELSE rows[1].time_delta + SumDeltas(Tail(rows))

\* lines 325-342: the response of the comparisons made
ResponseOf(session_id, target_lap, reference_lap, layout, comparisons) ==
  [session_id |-> session_id, target_lap |-> target_lap,
   reference_lap |-> reference_lap, track_length |-> layout.track_length,
   total_time_delta |-> SumDeltas(comparisons),
   comparisons |-> comparisons,
   largest_time_loss_segments |-> LargestLosses(SortByDeltaDescending(comparisons)),
   largest_time_gain_segments |-> LargestGains(SortByDeltaDescending(comparisons))]

\* line 281: request.segment_ids or the ids of the layout
RequestedIds(segment_ids, layout) ==
  IF IsNone(segment_ids) \/ Val(segment_ids) = <<>>
    THEN [i \in 1..Len(layout.segments) |-> layout.segments[i].segment_id]
  ELSE Val(segment_ids)

\* lines 273-342: the comparison of the segments both laps have
ComparisonResponse(session_id, target_lap, reference_lap, segment_ids, layout, target_metrics, reference_metrics) ==
  ResponseOf(session_id, target_lap, reference_lap, layout,
             Comparisons(RequestedIds(segment_ids, layout), target_lap, reference_lap,
                         target_metrics, reference_metrics))

\* compare_laps: the outcomes the call may have
CompareLaps(d1, d2, session_id, target_lap, reference_lap, segment_ids) ==
  UNION {IF lo.kind # "ok" THEN {CompareOutcome(lo.kind, None, lo.tier1, d2)}     \* line 267
         ELSE UNION {IF t.kind # "ok"
                       THEN {CompareOutcome(t.kind, None, t.tier1, t.tier2)}       \* line 270
                     ELSE UNION {IF r.kind # "ok"
                                   THEN {CompareOutcome(r.kind, None, r.tier1, r.tier2)}
                                   ELSE {CompareOutcome("ok",
                                           Some(ComparisonResponse(session_id, target_lap,
                                                  reference_lap, segment_ids, Val(lo.layout),
                                                  Val(t.value), Val(r.value))),
                                           r.tier1, r.tier2)} :
                                 r \in GetLapMetrics(t.tier1, t.tier2, session_id,
                                                     reference_lap, FALSE)} :
                     t \in GetLapMetrics(lo.tier1, d2, session_id, target_lap, FALSE)} :
         lo \in GetOrCreateLayout(d1, session_id, None, FALSE)}

(* Inputs of the comparison specification: the metrics of two laps as
   get_lap_metrics hands them to lines 273-342 of compare_laps *)

MaxSegs == 5
CompareTimes == 0..4
CompareIds == <<"S1", "T1", "S2", "T2", "S3", "T3">>

CompareLayout(n) ==
  [track_name |-> NameAB, track_layout |-> None, version |-> 1, track_length |-> Metres(100),
   segments |-> [i \in 1..n |-> Seg(CompareIds[i], IF i % 2 = 1 THEN "straight" ELSE "corner",
                                    Metres(0), Metres(100), None, None, None)],
   reference_lap_number |-> 2, reference_session_id |-> "sA"]

\* the metrics of a lap with the given segment times, without the first
\* `lacking` segments
CompareMetrics(lap_number, times, lacking) ==
  [session_id |-> "sA", lap_number |-> lap_number, layout_version |-> 1,
   track_length |-> Metres(100), total_time |-> None,
   segments |-> [i \in 1..(Len(times) - lacking) |->
                   SegMetrics(CompareIds[i + lacking], lap_number, "sA", times[i + lacking],
                              None, Some(times[i + lacking]))]]

\* no selection, a selection that repeats an id and names one no lap has
CompareRequests == {None, Some(<<"T1", "S1", "S1", "X9">>)}

\* lines 273-342 of one compare_laps call; a behaviour is a single call
CompareLapsAssembly ==
  /\ log = <<>>
  /\ \E n \in 0..MaxSegs, segment_ids \in CompareRequests, lacking \in 0..1 :
       \E times \in [1..n -> CompareTimes] :
          /\ lacking <= n
          /\ log' = <<[op |-> "compare_assembly", segment_ids |-> segment_ids,
                       layout |-> CompareLayout(n),
                       result |-> ComparisonResponse("sA", 1, 2, segment_ids, CompareLayout(n),
                                    CompareMetrics(1, times, 0),
                                    CompareMetrics(2, [i \in 1..n |-> 2], lacking))]>>
  /\ UNCHANGED <<norm, tier1, tier2>>

InitCompare == norm = NormIdle /\ tier1 = <<>> /\ tier2 = <<>> /\ log = <<>>
NextCompare == CompareLapsAssembly
SpecCompare == InitCompare /\ [][NextCompare]_vars

(* Claims about the comparison *)

IsAssembly(e) == e.op = "compare_assembly"

\* the time_delta the response reports for a segment id
DeltaOf(response, seg_id) ==
  response.comparisons[CHOOSE k \in 1..Len(response.comparisons) :
                         response.comparisons[k].segment_id = seg_id].time_delta

Compared(response, seg_id) ==
  \E k \in 1..Len(response.comparisons) : response.comparisons[k].segment_id = seg_id

ElementsOf(seq) == {seq[i] : i \in 1..Len(seq)}

SessionIds == {"sA", "sB", "sC", "sD", "sX"}
PreferredLaps == {None, Some(1), Some(3), Some(9)}
LapNumbers == {1, 2, 9}
ComparePairs == {<<1, 2>>, <<2, 1>>, <<2, 9>>, <<9, 2>>}
CompareSegmentIds == {None}

\* what get_layout holds for the track of the session (None for an unknown session)
StoredLayouts(dir, session_id) ==
  IF IsNone(GetSession(session_id)) THEN {None}
  ELSE GetLayout(dir, TrackNameOf(Val(GetSession(session_id))),
                 Val(GetSession(session_id)).track_layout, 1)

\* GET /sessions/{id}/layout and POST /sessions/{id}/layout/regenerate
GetOrCreateLayoutFor(sessions) ==
  \E session_id \in sessions, preferred_lap \in PreferredLaps, force_regenerate \in BOOLEAN :
     \E out \in GetOrCreateLayout(tier1, session_id, preferred_lap, force_regenerate) :
        /\ tier1' = out.tier1
        /\ log' = <<[op |-> "get_or_create_layout", session_id |-> session_id,
                     preferred_lap |-> preferred_lap, force_regenerate |-> force_regenerate,
                     kind |-> out.kind, result |-> out.layout,
                     selected |-> out.selected, detected |-> out.detected,
                     stored_before |-> StoredLayouts(tier1, session_id),
                     tier1_before |-> tier1, tier2_before |-> tier2]>>
        /\ UNCHANGED <<norm, tier2>>

\* GET /sessions/{id}/laps/{n}/segments
GetLapMetricsFor(sessions) ==
  \E session_id \in sessions, lap_number \in LapNumbers, force_recompute \in BOOLEAN :
     \E out \in GetLapMetrics(tier1, tier2, session_id, lap_number, force_recompute) :
        /\ tier1' = out.tier1
        /\ tier2' = out.tier2
        /\ log' = <<[op |-> "get_lap_metrics", session_id |-> session_id,
                     lap_number |-> lap_number, force_recompute |-> force_recompute,
                     kind |-> out.kind, result |-> out.value, layout |-> out.layout,
                     nested |-> out.nested, depth |-> out.depth,
                     from_cache |-> out.from_cache,
                     stored_before |-> StoredLayouts(tier1, session_id),
                     tier1_before |-> tier1, tier2_before |-> tier2]>>
        /\ UNCHANGED norm

\* POST /sessions/{id}/compare
CompareLapsCall ==
  \E session_id \in SessionIds, pair \in ComparePairs, segment_ids \in CompareSegmentIds :
     \E out \in CompareLaps(tier1, tier2, session_id, pair[1], pair[2], segment_ids) :
        /\ tier1' = out.tier1
        /\ tier2' = out.tier2
        /\ log' = <<[op |-> "compare_laps", session_id |-> session_id,
                     target_lap |-> pair[1], reference_lap |-> pair[2],
                     segment_ids |-> segment_ids, kind |-> out.kind, result |-> out.value,
                     stored_before |-> StoredLayouts(tier1, session_id),
                     tier1_before |-> tier1, tier2_before |-> tier2]>>
        /\ UNCHANGED norm

GetOrCreateLayoutCall == GetOrCreateLayoutFor(SessionIds)

GetLapMetricsCall == GetLapMetricsFor(SessionIds)

Next == GetOrCreateLayoutCall \/ GetLapMetricsCall \/ CompareLapsCall

Spec == InitCache /\ [][Next]_vars

(* Two recordings of one track: the layout detected from one of them is the
   cached layout of the other *)

SharedTrackSessions == {"sA", "sE"}

GetOrCreateLayoutShared == GetOrCreateLayoutFor(SharedTrackSessions)

GetLapMetricsShared == GetLapMetricsFor(SharedTrackSessions)

NextShared == GetOrCreateLayoutShared \/ GetLapMetricsShared

SpecShared == InitCache /\ [][NextShared]_vars

(* Tier 2 filled through SegmentCache.save_lap_metrics with metrics that
   calculate_lap_metrics returns for the stored layout, i.e. lines 238-248 of
   get_lap_metrics for a caller that hands the channels over under the keys
   calculate_lap_metrics reads; the service calls then run on that cache *)

MemoSessions == {"sA"}
MemoLaps == {1, 2}

\* the signal dict under the keys of metrics.py lines 54 and 126-129
KeyedSignals(signal_map) ==
  LET key == [LapDist |-> "Lap Dist", Speed |-> "Ground Speed", Brake |-> "Brake Pos",
              Throttle |-> "Throttle Pos", Steering |-> "Steering Pos"]
  IN [c \in {k \in DOMAIN key : key[k] \in DOMAIN signal_map} |-> signal_map[key[c]]]

\* calculate_lap_metrics for a lap of a recording
MetricsOfLap(session_id, lap_number, layout, reference_metrics) ==
  CalculateLapMetrics(session_id, lap_number, layout,
                      KeyedSignals(SignalMap(GetLapSignals(session_id, lap_number,
                                                           LayoutChannels).value)),
                      FindLap(GetLaps(session_id), lap_number).lap_time, reference_metrics)

\* lines 228-235 for such a caller: the metrics of the reference lap come from
\* Tier 2, or are computed from the layout and saved
ReferenceOfLayout(d1, d2, session_id, layout) ==
  UNION {IF ~IsNone(read.result) THEN {[value |-> read.result, tier2 |-> read.dir]}
         ELSE {[value |-> o.value, tier2 |-> o.tier2] :
                 o \in {x \in SaveAndReturn(MetricsOfLap(session_id,
                                                         layout.reference_lap_number,
                                                         layout, None).value,
                                            d1, read.dir, layout) : x.kind = "ok"}} :
         read \in GetLapMetricsCache(d2, session_id, layout.reference_lap_number,
                                     layout.version)}

\* lines 228-248: the metrics of the lap are computed from the layout and saved
ComputeAndSave(d1, d2, session_id, lap_number, layout) ==
  UNION {SaveAndReturn(MetricsOfLap(session_id, lap_number, layout, ref.value).value,
                       d1, ref.tier2, layout) :
         ref \in (IF lap_number # layout.reference_lap_number
                    THEN ReferenceOfLayout(d1, d2, session_id, layout)
                    ELSE {[value |-> None, tier2 |-> d2]})}

\* the metrics of a lap are computed from the stored layout and saved
SaveComputedMetrics ==
  \E session_id \in MemoSessions, lap_number \in MemoLaps :
     \E stored \in StoredLayouts(tier1, session_id) \ {None} :
        \E out \in ComputeAndSave(tier1, tier2, session_id, lap_number, Val(stored)) :
           /\ tier2' = out.tier2
           /\ log' = <<[op |-> "save_computed_metrics", session_id |-> session_id,
                        lap_number |-> lap_number, kind |-> out.kind,
                        result |-> out.value, layout |-> out.layout,
                        tier1_before |-> tier1, tier2_before |-> tier2]>>
           /\ UNCHANGED <<norm, tier1>>

GetOrCreateLayoutMemo == GetOrCreateLayoutFor(MemoSessions)

GetLapMetricsMemo == GetLapMetricsFor(MemoSessions)

\* the storage raises no sqlite3.Error in these behaviours
NoStorageFault == \A i \in DOMAIN log : log[i].kind # "internal"

NextMemo ==
  /\ GetOrCreateLayoutMemo \/ GetLapMetricsMemo \/ SaveComputedMetrics
  /\ NoStorageFault'

SpecMemo == InitCache /\ [][NextMemo]_vars

----------------------------------------------------------------------------
(* Claims about the service *)

IsLayoutCall(e) == e.op = "get_or_create_layout"
IsMetricsCall(e) == e.op = "get_lap_metrics"
IsCompareCall(e) == e.op = "compare_laps"

SessionKnown(session_id) == ~IsNone(GetSession(session_id))
SessionHasLaps(session_id) == SessionKnown(session_id) /\ GetLaps(session_id) # <<>>
LapOfSession(session_id, lap_number) ==
  SessionKnown(session_id) /\ HasLap(GetLaps(session_id), lap_number)

TiersUntouched(e) == tier1 = e.tier1_before /\ tier2 = e.tier2_before

\* C1 (as claimed): a get_lap_metrics call for the reference lap of the
\* layout it uses returns metrics, and every segment of them has
\* time_delta_to_reference = None.
C1_ReferenceLapHasNoDelta ==
  \A i \in 1..Len(log) :
     (/\ IsMetricsCall(log[i])
      /\ ~IsNone(log[i].layout)
      /\ log[i].lap_number = Val(log[i].layout).reference_lap_number) =>
        /\ log[i].kind = "ok"
        /\ \A k \in 1..Len(Val(log[i].result).segments) :
              IsNone(Val(log[i].result).segments[k].time_delta_to_reference)

\* C4: when get_layout finds a layout for the track of the session, a
\* get_or_create_layout without force_regenerate returns what get_layout
\* finds, for any preferred_lap, runs neither select_reference_lap nor
\* detect_layout, and leaves both cache tiers as they were.
C4_CachedLayoutReturned ==
  \A i \in 1..Len(log) :
     (/\ IsLayoutCall(log[i])
      /\ ~log[i].force_regenerate
      /\ None \notin log[i].stored_before) =>
        /\ log[i].kind = "ok"
        /\ log[i].result \in log[i].stored_before
        /\ ~log[i].selected
        /\ ~log[i].detected
        /\ TiersUntouched(log[i])

\* the layout detected from lap 2 is stored and a call that prefers lap 1
\* returns it
C4_Witness ==
  /\ log # <<>>
  /\ IsLayoutCall(log[1])
  /\ ~log[1].force_regenerate
  /\ log[1].preferred_lap = Some(1)
  /\ None \notin log[1].stored_before
  /\ log[1].kind = "ok"
  /\ Val(log[1].result).reference_lap_number = 2

\* every layout row of the Tier-1 cache and every layout a call returned or used
VersionsSeen ==
  {tier1[k].meta[j][3] : <<k, j>> \in {x \in (DOMAIN tier1) \X (1..2) : x[2] <= Len(tier1[x[1]].meta)}}
  \cup {Val(log[i].result).version : i \in {j \in 1..Len(log) :
                                                 IsLayoutCall(log[j]) /\ log[j].kind = "ok"}}
  \cup {Val(log[i].layout).version : i \in {j \in 1..Len(log) :
                                                 IsMetricsCall(log[j]) /\ ~IsNone(log[j].layout)}}

RequestedLaps(e) ==
  IF IsMetricsCall(e) THEN {e.lap_number}
  ELSE IF IsCompareCall(e) THEN {e.target_lap, e.reference_lap}
  ELSE IF IsNone(e.preferred_lap) THEN {} ELSE {Val(e.preferred_lap)}

NoEntryForRequested(e) ==
  \A n \in RequestedLaps(e) : MetricsPath(e.session_id, n) \notin DOMAIN tier2

\* C7 (as claimed): each of the three calls ends with the not-found error
\* when the session is unknown, has no laps, or does not have a requested
\* lap, and writes no Tier-2 entry for a requested lap.
C7_AsClaimed ==
  \A i \in 1..Len(log) :
     (\/ ~SessionKnown(log[i].session_id)
      \/ ~SessionHasLaps(log[i].session_id)
      \/ \E n \in RequestedLaps(log[i]) : ~LapOfSession(log[i].session_id, n)) =>
        log[i].kind = "not_found" /\ NoEntryForRequested(log[i])

\* C7 (amended): the three calls end with the not-found error for an unknown
\* session; get_or_create_layout does so for a session without laps when
\* force_regenerate is set or get_layout finds no layout for the track (else
\* it returns the cached layout), and a preferred_lap the session does not
\* have is no error; get_lap_metrics and compare_laps do so for a session
\* without laps, and for a lap the session does not have unless no layout was
\* cached and detecting or saving one failed otherwise; in each of these cases
\* no Tier-2 entry is written for a requested lap.
C7_NotFound ==
  \A i \in 1..Len(log) :
     LET e == log[i]
     IN /\ ~SessionKnown(e.session_id) =>
             e.kind = "not_found" /\ TiersUntouched(e)
        /\ (SessionKnown(e.session_id) /\ ~SessionHasLaps(e.session_id)) =>
             IF IsLayoutCall(e)
               THEN IF e.force_regenerate \/ None \in e.stored_before
                      THEN e.kind = "not_found" /\ TiersUntouched(e)
                      ELSE e.kind = "ok" /\ e.result \in e.stored_before
               ELSE e.kind = "not_found" /\ NoEntryForRequested(e)
        /\ (/\ SessionHasLaps(e.session_id)
            /\ ~IsLayoutCall(e)
            /\ \E n \in RequestedLaps(e) : ~LapOfSession(e.session_id, n)) =>
             /\ e.kind = "not_found" \/ (e.kind = "internal" /\ None \in e.stored_before)
             /\ NoEntryForRequested(e)

\* a lap the session does not have was asked for while a layout was cached
C7_Witness ==
  /\ log # <<>>
  /\ IsMetricsCall(log[1])
  /\ SessionHasLaps(log[1].session_id)
  /\ ~LapOfSession(log[1].session_id, log[1].lap_number)
  /\ None \notin log[1].stored_before
  /\ log[1].kind = "not_found"
  /\ tier2 = <<>>

\* the Tier-2 cache holds an entry of the lap
HasEntry(dir, session_id, lap_number) == MetricsPath(session_id, lap_number) \in DOMAIN dir

\* C23 (as claimed): a get_lap_metrics call nests at most one level deep; for
\* a lap other than the reference lap of the layout it uses it makes exactly
\* one nested call, for that reference lap, and for the reference lap none;
\* after a call that returned, Tier 2 holds an entry of the requested lap and
\* of the reference lap; and a call without force_recompute for a lap Tier 2
\* holds an entry of is answered from the cache.
C23_MemoizedRecursion ==
  \A i \in 1..Len(log) :
     (IsMetricsCall(log[i]) /\ ~IsNone(log[i].layout)) =>
        LET e == log[i]
            reference_lap_number == Val(e.layout).reference_lap_number
        IN /\ e.depth <= 2
           /\ e.lap_number # reference_lap_number =>
                /\ Len(e.nested) = 1
                /\ e.nested[1].lap_number = reference_lap_number
           /\ e.lap_number = reference_lap_number => e.nested = <<>>
           /\ e.kind = "ok" =>
                /\ HasEntry(tier2, e.session_id, e.lap_number)
                /\ HasEntry(tier2, e.session_id, reference_lap_number)
           /\ (HasEntry(e.tier2_before, e.session_id, e.lap_number) /\ ~e.force_recompute) =>
                e.from_cache

\* what the code does instead: the recursion is bounded, but no call returns
\* metrics, so Tier 2 stays empty and nothing is ever answered from it
C23_NothingMemoized ==
  /\ tier2 = <<>>
  /\ \A i \in 1..Len(log) :
        IsMetricsCall(log[i]) =>
          /\ log[i].kind # "ok" /\ ~log[i].from_cache /\ log[i].depth <= 2
          /\ Len(log[i].nested) <= 1
          /\ \A k \in 1..Len(log[i].nested) :
                /\ log[i].nested[k].lap_number = Val(log[i].layout).reference_lap_number
                /\ log[i].nested[k].kind # "ok"

\* C26 (as claimed): the reference metrics a get_lap_metrics call obtains to
\* fill time_delta_to_reference are those of lap layout.reference_lap_number
\* of session layout.reference_session_id, also when the layout in use was
\* detected from another session of the track.
C26_ReferenceOfLayoutSession ==
  \A i \in 1..Len(log) :
     IsMetricsCall(log[i]) =>
        \A k \in 1..Len(log[i].nested) :
           /\ log[i].nested[k].lap_number = Val(log[i].layout).reference_lap_number
           /\ log[i].nested[k].session_id = Val(log[i].layout).reference_session_id

\* what holds of the code: the reference metrics are asked of the session of
\* the call itself
C26_ReferenceOfOwnSession ==
  \A i \in 1..Len(log) :
     IsMetricsCall(log[i]) =>
        \A k \in 1..Len(log[i].nested) :
           /\ log[i].nested[k].lap_number = Val(log[i].layout).reference_lap_number
           /\ log[i].nested[k].session_id = log[i].session_id

\* the metrics get_lap_metrics computes for the lap from the layout, its
\* reference metrics those of the reference lap of the layout
MetricsUnder(session_id, lap_number, layout) ==
  MetricsOfLap(session_id, lap_number, layout,
               IF lap_number = layout.reference_lap_number THEN None
               ELSE Some(MetricsOfLap(session_id, layout.reference_lap_number, layout,
                                      None).value)).value

\* the ids of the rows, and the delta of each id
SegmentIdSet(segs) == {segs[k].segment_id : k \in 1..Len(segs)}
DeltaById(segs) ==
  [id \in SegmentIdSet(segs) |->
     {segs[k].time_delta_to_reference : k \in {j \in 1..Len(segs) : segs[j].segment_id = id}}]

ServedFromCache(e) == IsMetricsCall(e) /\ e.kind = "ok" /\ e.from_cache

C27_ServedOfSameVersion ==
  \A i \in 1..Len(log) :
     ServedFromCache(log[i]) =>
        /\ log[i].layout \in StoredLayouts(log[i].tier1_before, log[i].session_id)
        /\ Val(log[i].result).layout_version = Val(log[i].layout).version
        /\ Val(log[i].layout).version = 1

\* the reference lap of the stored layout is served with a delta to another lap
C27_StaleServed ==
  \E i \in 1..Len(log) :
     /\ ServedFromCache(log[i])
     /\ log[i].lap_number = Val(log[i].layout).reference_lap_number
     /\ \E k \in 1..Len(Val(log[i].result).segments) :
           ~IsNone(Val(log[i].result).segments[k].time_delta_to_reference)

IsComputed(e) == e.op = "save_computed_metrics" /\ e.kind = "ok"

\* what SegmentCache.get_lap_metrics reads back right after the save
ReadBack(e) ==
  {read.result : read \in GetLapMetricsCache(tier2, e.session_id, e.lap_number,
                                             Val(e.layout).version)}

RowsStamped(metrics) ==
  {[metrics.segments[k] EXCEPT !.lap_number = metrics.lap_number,
                               !.session_id = metrics.session_id] :
     k \in 1..Len(metrics.segments)}

\* what holds of the code: the entry read back has the rows that were
\* computed, each with the lap and the session of the request in place of 0
\* and "", in the order of their segment ids
C28_SameRowsStamped ==
  \A i \in 1..Len(log) :
     IsComputed(log[i]) =>
        \A read \in ReadBack(log[i]) :
           /\ ~IsNone(read)
           /\ RowsStamped(Val(read)) = RowsStamped(Val(log[i].result))
           /\ \A k \in 1..Len(Val(read).segments) :
                 /\ Val(read).segments[k].lap_number = log[i].lap_number
                 /\ Val(read).segments[k].session_id = log[i].session_id
           /\ \A k \in 1..Len(Val(log[i].result).segments) :
                 /\ Val(log[i].result).segments[k].lap_number = 0
                 /\ Val(log[i].result).segments[k].session_id = ""

\* the triple a layout is saved under
TripleOf(layout) == <<layout.track_name, layout.track_layout, layout.version>>

\* C29 (as claimed): layouts of different (track_name, track_layout, version)
\* occupy different Tier-1 entries: a save_layout leaves what get_layout
\* returns for every other triple as it was, and get_layout(t, l, v) returns
\* no layout whose track_name or track_layout is not t and l.
C29_TriplesSeparate ==
  /\ \A i \in 1..Len(log) :
        (log[i].op = "get_layout" /\ ~IsNone(log[i].result)) =>
           /\ Val(log[i].result).track_name = log[i].track_name
           /\ Val(log[i].result).track_layout = log[i].track_layout
  /\ (log # <<>> /\ Last(log).op = "save_layout") =>
        \A t \in TrackTriples \ {TripleOf(Last(log).layout)} :
           GetLayout(tier1, t[1], t[2], t[3]) = GetLayout(Last(log).dir_before, t[1], t[2], t[3])

\* what holds of the code: the entries are separated by file name, so the
\* same is true of triples that _make_track_key maps to different keys
C29_KeysSeparate ==
  /\ \A i \in 1..Len(log) :
        (log[i].op = "get_layout" /\ ~IsNone(log[i].result)) =>
           MakeTrackKey(Val(log[i].result).track_name, Val(log[i].result).track_layout,
                        Val(log[i].result).version)
             = MakeTrackKey(log[i].track_name, log[i].track_layout, log[i].version)
  /\ (log # <<>> /\ Last(log).op = "save_layout") =>
        \A t \in TrackTriples :
           MakeTrackKey(t[1], t[2], t[3])
               # MakeTrackKey(Last(log).layout.track_name, Last(log).layout.track_layout,
                              Last(log).layout.version) =>
             GetLayout(tier1, t[1], t[2], t[3])
               = GetLayout(Last(log).dir_before, t[1], t[2], t[3])

\* a layout saved for track "A B" without variant is returned for track "A",
\* variant "B"
C29_OtherTrackReturned ==
  /\ Len(log) = 2
  /\ log[1].op = "save_layout" /\ log[1].ok
  /\ log[1].layout.track_name = NameAB
  /\ log[2].op = "get_layout" /\ log[2].track_name = NameA
  /\ ~IsNone(log[2].result) /\ Val(log[2].result).track_name = NameAB

\* the two segments share more than a point of the track
Overlap(a, b) == a.start_dist < b.end_dist /\ b.start_dist < a.end_dist

\* C30 (as claimed): in a layout detect_layout returns with at least one
\* corner or complex every straight is longer than STRAIGHT_MIN_LENGTH and
\* overlaps no corner or complex; no straight of length zero follows the last
\* corner.
C30_StraightsLongAndApart ==
  \A k \in 1..Len(log) :
     (Returned(log[k]) /\ NotStraight(log[k].result.segments) # <<>>) =>
        LET segments == log[k].result.segments
        IN \A i \in 1..Len(segments) :
              segments[i].segment_type = "straight" =>
                 /\ segments[i].end_dist - segments[i].start_dist > 20 * Scale
                 /\ \A j \in 1..Len(segments) :
                       segments[j].segment_type # "straight" =>
                          ~Overlap(segments[i], segments[j])

\* what holds of the code: only the straight appended after the loop, from
\* the end of the last corner to the track length, can be 20 m or shorter,
\* and it is emitted when that gap plus the gap before the first corner is
\* longer than 20 m; no straight overlaps a corner or complex
C30_OnlyClosingStraightShort ==
  \A k \in 1..Len(log) :
     (Returned(log[k]) /\ NotStraight(log[k].result.segments) # <<>>) =>
        LET segments == log[k].result.segments
            turns == NotStraight(segments)
        IN \A i \in 1..Len(segments) :
              segments[i].segment_type = "straight" =>
                 /\ segments[i].end_dist - segments[i].start_dist <= 20 * Scale =>
                       /\ segments[i].start_dist = Last(turns).end_dist
                       /\ segments[i].end_dist = log[k].result.track_length
                       /\ (segments[i].end_dist - segments[i].start_dist)
                            + turns[1].start_dist > 20 * Scale
                 /\ \A j \in 1..Len(segments) :
                       segments[j].segment_type # "straight" =>
                          ~Overlap(segments[i], segments[j])

\* a layout whose last corner ends at the track length, followed by a
\* straight of length zero
C30_ZeroLengthStraight ==
  /\ Len(log) = 1 /\ Returned(log[1])
  /\ NotStraight(log[1].result.segments) # <<>>
  /\ \E i \in 1..Len(log[1].result.segments) :
        /\ log[1].result.segments[i].segment_type = "straight"
        /\ log[1].result.segments[i].start_dist = log[1].result.track_length
        /\ log[1].result.segments[i].end_dist = log[1].result.track_length

=============================================================================
